---- MODULE Spec2Model ----
(***************************************************************************)
(* A model of kimmans/rag_basic: the embedding generator of step2.py       *)
(* (candidate-model fallback, per-document aggregation), the chunker and   *)
(* the sequence builder of step2.py (and v_embed.py), save_to_qdrant, and  *)
(* the retrieve -> generate workflow with its interactive loop of          *)
(* step3.py.                                                               *)
(***************************************************************************)
EXTENDS Integers, Sequences, FiniteSets, TLC

VARIABLES
    \* ---- create_voyage_multimodal_embeddings (step2.py) ----
    dim,               \* the embedding service: output width of each model
    nchunks,           \* per input sequence, len(text_chunks)
    ePc,               \* position in create_voyage_multimodal_embeddings
    si,                \* index of the sequence being processed (1-based)
    cj,                \* index of the chunk being processed (1-based)
    mk,                \* index into models_to_try of the next candidate
    chunk_embeddings,  \* the local list of step2.py:237
    embeddings,        \* the batch returned at step2.py:286
    calls,             \* every voyage_client.embed call made so far
    \* ---- chunk_text (step2.py) ----
    text,              \* the argument text, a sequence of characters
    max_length,        \* the argument max_length
    cPc,               \* position in chunk_text
    sentences,         \* re.split's result
    sidx,              \* index of the sentence the for loop takes next
    current_chunk,     \* the running buffer
    chunks,            \* the chunks flushed so far
    result,            \* the value chunk_text returns
    \* ---- step3.py: main, interactive_qa and the RAG workflow ----
    collection,        \* the Qdrant collection "voyage-multimodal-docs"
    iPc,               \* position of a concurrent save_to_qdrant (step2.py)
    rebuilds,          \* the ingestion runs completed so far
    qPc,               \* position in main / interactive_qa / rag_app.invoke
    line,              \* the raw line input() returned last
    question,          \* the local question of interactive_qa
    state,             \* the RAGState of the running workflow
    rresult,           \* the local result of interactive_qa
    nodes,             \* the workflow nodes executed for this question
    seen,              \* the collection as the last Retrieve found it
    qcalls,            \* the embedding requests of the last Retrieve
    searched,          \* the search requests of the last Retrieve
    lastEvent,         \* what the last step of the session did
    reported,          \* the last input ended in the error line (step3.py:263)
    hadFailure,        \* some earlier question failed
    stdinOpen,         \* standard input has not reached its end
    errorLines,        \* the error lines printed (step3.py:263), modulo 2
    \* ---- create_multimodal_sequences (step2.py, v_embed.py) ----
    builder,           \* which of the two builders runs: "step2" or "v_embed"
    md_content,        \* the markdown text, characters and image markers
    image_files,       \* the image list, in discovery order
    captions,          \* the image names the caption service has captioned
    bPc,               \* position in the caption step / the builder
    matches,           \* the positions of the image markers in md_content
    mi,                \* index of the marker the for loop takes next
    current_pos,       \* the local current_pos
    multimodal_content,\* the segments emitted so far
    sequences,         \* the value create_multimodal_sequences returns
    \* ---- save_to_qdrant (step2.py) ----
    qdrant,            \* the collection as the Qdrant server holds it
    prior,             \* the collection as it was before save_to_qdrant
    vPc,               \* position in save_to_qdrant
    points,            \* the local list points of step2.py:322
    query,             \* the last search_similar_documents call (step2.py)
    hits,              \* what that call returned
    \* ---- preprocess_korean_text (step2.py) ----
    query_text,        \* the argument of the call
    ntext,             \* the local text, as the function rewrites it
    nPc,               \* position in preprocess_korean_text
    \* ---- step1.py: main and process_pdf_files ----
    pdf_files,         \* per input PDF, whether its conversion succeeds
    kPc,               \* position in main / process_pdf_files
    ki,                \* index of the PDF the for loop takes next
    successful_count,  \* the local successful_count
    failed_count,      \* the local failed_count
    counts,            \* what main holds in (successful, failed)
    \* ---- llama_parse.py ----
    lpdfs,             \* the PDF files glob found, by name
    lPc,               \* position in the script
    li,                \* index of the PDF the for loop takes next
    saved,             \* the PDFs whose JSON and markdown files exist
    attempts,          \* the get_json_result calls made so far
    lrun,              \* which run of the script this is
    \* ---- step2.py: main ----
    mPc,               \* position in main
    has_key,           \* VOYAGE_API_KEY is set
    processed_data     \* len(processed_data)

embedVars == <<dim, nchunks, ePc, si, cj, mk, chunk_embeddings, embeddings, calls>>

chunkVars == <<text, max_length, cPc, sentences, sidx, current_chunk, chunks, result>>

qaVars == <<collection, iPc, rebuilds, qPc, line, question, state, rresult,
            nodes, seen, qcalls, searched, lastEvent, reported, hadFailure,
            stdinOpen, errorLines>>

seqVars == <<builder, md_content, image_files, captions, bPc, matches, mi,
             current_pos, multimodal_content, sequences>>

saveVars == <<qdrant, prior, vPc, points, query, hits>>

normVars == <<query_text, ntext, nPc>>

convVars == <<pdf_files, kPc, ki, successful_count, failed_count, counts>>

parseVars == <<lpdfs, lPc, li, saved, attempts, lrun>>

mainVars == <<mPc, has_key, processed_data>>

vars == <<embedVars, chunkVars, qaVars, seqVars, saveVars,
          normVars, convVars, parseVars, mainVars>>

----------------------------------------------------------------------------
(* Bounds of the model.                                                    *)

\* The chunks of one batch, all its sequences together.
MaxTotalChunks == 4

\* The largest output width of an embedding model.
MaxDim == 2

\* The longest text handed to chunk_text, and the largest max_length.
MaxTextLen == 6

MaxMaxLength == 5

\* The points of one ingestion batch, and the rebuilds during one session.
MaxPoints == 2

MaxRebuilds == 1

\* The longest markdown text handed to the sequence builder, in characters
\* and markers, and the most image files of one document.
MaxMdLen == 4

MaxImages == 2

\* The largest limit a search is called with.
MaxLimit == 2

\* The largest number of PDF files in an input directory.
MaxPdfs == 4

\* The longest query text preprocess_korean_text is given.
MaxQueryLen == 4

\* The PDF files llama_parse.py finds, and the runs of the script.
MaxParsePdfs == 2

MaxRuns == 2

----------------------------------------------------------------------------
(* create_voyage_multimodal_embeddings, step2.py:194-286                   *)

ModelsToTryReordered == <<"voyage-02", "voyage-large-2", "voyage-01">>

\* models_to_try, in the order the inner for loop walks it.
ModelsToTry == <<"voyage-large-2", "voyage-02", "voyage-01">>

Models == {ModelsToTry[i] : i \in 1..Len(ModelsToTry)}

ModelRank(m) == CHOOSE i \in 1..Len(ModelsToTry) : ModelsToTry[i] = m

\* result.embeddings[0] of a successful voyage_client.embed(texts=[chunk],
\* model=m): a vector of the model's width, a fixed function of the chunk
\* and the model.
EmbedResult(s, j, m) == [k \in 1..dim[m] |-> s + 2 * j + k * ModelRank(m)]

RECURSIVE SumAt(_, _)
SumAt(vs, k) == IF vs = <<>> THEN 0 ELSE Head(vs)[k] + SumAt(Tail(vs), k)

\* np.mean(vs, axis=0) is defined only on vectors of one length.
Homogeneous(vs) == \A a \in 1..Len(vs) : Len(vs[a]) = Len(vs[1])

NpMeanOfFirst(vs) == [k \in 1..Len(vs[1]) |-> [num |-> vs[1][k], den |-> 1]]

\* np.mean(vs, axis=0).tolist(): each component is the exact quotient
\* num / den.
NpMean(vs) == [k \in 1..Len(vs[1]) |-> [num |-> SumAt(vs, k), den |-> Len(vs)]]

\* The compositions of at most n chunks into sequences.
RECURSIVE Batches(_)
Batches(n) ==
    IF n = 0 THEN {<<>>}
    ELSE {<<>>} \cup UNION {{<<c>> \o b : b \in Batches(n - c)} : c \in 1..n}

InitEmbed ==
    /\ dim \in [Models -> 1..MaxDim]
    /\ nchunks \in Batches(MaxTotalChunks) \ {<<>>}
    /\ ePc = "next_sequence"
    /\ si = 1
    /\ cj = 1
    /\ mk = 1
    /\ chunk_embeddings = <<>>
    /\ embeddings = <<>>
    /\ calls = <<>>
    \* chunk_text is not running
    /\ text = <<>>
    /\ max_length = 1
    /\ cPc = "idle"
    /\ sentences = <<>>
    /\ sidx = 1
    /\ current_chunk = <<>>
    /\ chunks = <<>>
    /\ result = <<>>
    \* step3.py is not running
    /\ collection = [exists |-> FALSE, points |-> <<>>]
    /\ iPc = "idle"
    /\ rebuilds = 0
    /\ qPc = "idle"
    /\ line = <<>>
    /\ question = <<>>
    /\ state = [question |-> <<>>, documents |-> <<>>, answer |-> <<>>]
    /\ rresult = [question |-> <<>>, documents |-> <<>>, answer |-> <<>>]
    /\ nodes = <<>>
    /\ seen = [exists |-> FALSE, points |-> <<>>]
    /\ qcalls = <<>>
    /\ searched = <<>>
    /\ lastEvent = "none"
    /\ reported = FALSE
    /\ hadFailure = FALSE
    /\ stdinOpen = TRUE
    /\ errorLines = 0
    \* create_multimodal_sequences is not running
    /\ builder = "step2"
    /\ md_content = <<>>
    /\ image_files = <<>>
    /\ captions = {}
    /\ bPc = "idle"
    /\ matches = <<>>
    /\ mi = 1
    /\ current_pos = 1
    /\ multimodal_content = <<>>
    /\ sequences = <<>>
    \* save_to_qdrant is not running
    /\ qdrant = [exists |-> FALSE]
    /\ prior = [exists |-> FALSE]
    /\ vPc = "idle"
    /\ points = <<>>
    /\ query = [outcome |-> "none"]
    /\ hits = <<>>
    \* preprocess_korean_text is not running
    /\ query_text = <<>>
    /\ ntext = <<>>
    /\ nPc = "idle"
    \* step1.py is not running
    /\ pdf_files = <<>>
    /\ kPc = "idle"
    /\ ki = 1
    /\ successful_count = 0
    /\ failed_count = 0
    /\ counts = [none |-> TRUE]
    \* llama_parse.py is not running
    /\ lpdfs = <<>>
    /\ lPc = "idle"
    /\ li = 1
    /\ saved = {}
    /\ attempts = <<>>
    /\ lrun = 1
    \* main of step2.py is not running
    /\ mPc = "idle"
    /\ has_key = FALSE
    /\ processed_data = 0

\* step2.py:208-237: the for loop takes the next sequence, derives its text
\* chunks and starts with an empty chunk_embeddings.
BeginSequence ==
    /\ ePc = "next_sequence"
    /\ UNCHANGED <<chunkVars, qaVars, seqVars, saveVars,
                    normVars, convVars, parseVars, mainVars>>
    /\ si <= Len(nchunks)
    /\ ePc' = "embed"
    /\ cj' = 1
    /\ mk' = 1
    /\ chunk_embeddings' = <<>>
    /\ UNCHANGED <<dim, nchunks, si, embeddings, calls>>

\* Where the chunk loop stands once chunk cj is finished (a break, or the
\* for-else of step2.py:260).
AfterChunk ==
    /\ mk' = 1
    /\ IF cj < nchunks[si]
         THEN cj' = cj + 1 /\ ePc' = "embed"
         ELSE cj' = cj /\ ePc' = "aggregate"

\* step2.py:245-256: the candidate answers; its vector is appended and the
\* model loop is left by break.
EmbedSuccess ==
    /\ ePc = "embed"
    /\ UNCHANGED <<chunkVars, qaVars, seqVars, saveVars,
                    normVars, convVars, parseVars, mainVars>>
    /\ calls' = Append(calls, [seq |-> si, chunk |-> cj,
                               model |-> ModelsToTry[mk], ok |-> TRUE])
    /\ chunk_embeddings' = Append(chunk_embeddings,
           [chunk_index |-> cj - 1,
            embedding |-> EmbedResult(si, cj, ModelsToTry[mk]),
            model_used |-> ModelsToTry[mk]])
    /\ AfterChunk
    /\ UNCHANGED <<dim, nchunks, si, embeddings>>

\* step2.py:257-261: the candidate raises; the failure is printed and the
\* loop continues with the next candidate, or ends in its else branch.
EmbedFailure ==
    /\ ePc = "embed"
    /\ UNCHANGED <<chunkVars, qaVars, seqVars, saveVars,
                    normVars, convVars, parseVars, mainVars>>
    /\ calls' = Append(calls, [seq |-> si, chunk |-> cj,
                               model |-> ModelsToTry[mk], ok |-> FALSE])
    /\ IF mk < Len(ModelsToTry)
         THEN mk' = mk + 1 /\ UNCHANGED <<cj, ePc>>
         ELSE AfterChunk
    /\ UNCHANGED <<dim, nchunks, si, chunk_embeddings, embeddings>>

\* step2.py:266-284: with at least one chunk vector the mean is appended to
\* the batch; np.mean raises on vectors of different lengths and the except
\* of step2.py:283 swallows it, so nothing is appended.
Aggregate ==
    /\ ePc = "aggregate"
    /\ UNCHANGED <<chunkVars, qaVars, seqVars, saveVars,
                    normVars, convVars, parseVars, mainVars>>
    /\ LET vs == [a \in 1..Len(chunk_embeddings) |-> chunk_embeddings[a].embedding]
       IN  IF chunk_embeddings # <<>> /\ Homogeneous(vs)
             THEN embeddings' = Append(embeddings,
                      [pdf_name |-> si,
                       embedding |-> NpMean(vs),
                       chunks |-> chunk_embeddings])
             ELSE embeddings' = embeddings
    /\ si' = si + 1
    /\ ePc' = "next_sequence"
    /\ UNCHANGED <<dim, nchunks, cj, mk, chunk_embeddings, calls>>

\* step2.py:286: return embeddings.
ReturnEmbeddings ==
    /\ ePc = "next_sequence"
    /\ UNCHANGED <<chunkVars, qaVars, seqVars, saveVars,
                    normVars, convVars, parseVars, mainVars>>
    /\ si > Len(nchunks)
    /\ ePc' = "done"
    /\ UNCHANGED <<dim, nchunks, si, cj, mk, chunk_embeddings, embeddings, calls>>

NextEmbed ==
    \/ BeginSequence
    \/ EmbedSuccess
    \/ EmbedFailure
    \/ Aggregate
    \/ ReturnEmbeddings

----------------------------------------------------------------------------
(* chunk_text, step2.py:30-54                                              *)

\* The characters of the modelled texts: two letters, a blank and two
\* sentence terminators.
Alphabet == {"a", "b", " ", ".", "?"}

\* The ASCII members of the character class of re.split at step2.py:36; its
\* full-width members are split on in the same way.
SentenceEnd == {".", "!", "?"}

\* The characters str.strip() removes and \s matches.
Whitespace == {" ", "\n"}

Texts(n) == UNION {[1..m -> Alphabet] : m \in 0..n}

\* re.split(r'[.!?...]', t): the pieces between the terminators, empty
\* pieces included; k terminators give k + 1 pieces.
RECURSIVE ReSplit(_)
ReSplit(t) ==
    IF \A p \in 1..Len(t) : t[p] \notin SentenceEnd THEN <<t>>
    ELSE LET p == CHOOSE q \in 1..Len(t) :
                    /\ t[q] \in SentenceEnd
                    /\ \A u \in 1..(q - 1) : t[u] \notin SentenceEnd
         IN  <<SubSeq(t, 1, p - 1)>> \o ReSplit(SubSeq(t, p + 1, Len(t)))

RECURSIVE LStrip(_)
LStrip(t) == IF t # <<>> /\ Head(t) \in Whitespace THEN LStrip(Tail(t)) ELSE t

RECURSIVE RStrip(_)
RStrip(t) ==
    IF t # <<>> /\ t[Len(t)] \in Whitespace
      THEN RStrip(SubSeq(t, 1, Len(t) - 1))
      ELSE t

\* str.strip()
Strip(t) == RStrip(LStrip(t))

\* The separator chunk_text puts after every sentence: ". "
Separator == <<".", " ">>

InitChunk ==
    /\ text \in Texts(MaxTextLen)
    /\ max_length \in 1..MaxMaxLength
    /\ cPc = "start"
    /\ sentences = <<>>
    /\ sidx = 1
    /\ current_chunk = <<>>
    /\ chunks = <<>>
    /\ result = <<>>
    \* the embedding generator is not running
    /\ dim = [m \in Models |-> 1]
    /\ nchunks = <<>>
    /\ ePc = "idle"
    /\ si = 1
    /\ cj = 1
    /\ mk = 1
    /\ chunk_embeddings = <<>>
    /\ embeddings = <<>>
    /\ calls = <<>>
    \* step3.py is not running
    /\ collection = [exists |-> FALSE, points |-> <<>>]
    /\ iPc = "idle"
    /\ rebuilds = 0
    /\ qPc = "idle"
    /\ line = <<>>
    /\ question = <<>>
    /\ state = [question |-> <<>>, documents |-> <<>>, answer |-> <<>>]
    /\ rresult = [question |-> <<>>, documents |-> <<>>, answer |-> <<>>]
    /\ nodes = <<>>
    /\ seen = [exists |-> FALSE, points |-> <<>>]
    /\ qcalls = <<>>
    /\ searched = <<>>
    /\ lastEvent = "none"
    /\ reported = FALSE
    /\ hadFailure = FALSE
    /\ stdinOpen = TRUE
    /\ errorLines = 0
    \* create_multimodal_sequences is not running
    /\ builder = "step2"
    /\ md_content = <<>>
    /\ image_files = <<>>
    /\ captions = {}
    /\ bPc = "idle"
    /\ matches = <<>>
    /\ mi = 1
    /\ current_pos = 1
    /\ multimodal_content = <<>>
    /\ sequences = <<>>
    \* save_to_qdrant is not running
    /\ qdrant = [exists |-> FALSE]
    /\ prior = [exists |-> FALSE]
    /\ vPc = "idle"
    /\ points = <<>>
    /\ query = [outcome |-> "none"]
    /\ hits = <<>>
    \* preprocess_korean_text is not running
    /\ query_text = <<>>
    /\ ntext = <<>>
    /\ nPc = "idle"
    \* step1.py is not running
    /\ pdf_files = <<>>
    /\ kPc = "idle"
    /\ ki = 1
    /\ successful_count = 0
    /\ failed_count = 0
    /\ counts = [none |-> TRUE]
    \* llama_parse.py is not running
    /\ lpdfs = <<>>
    /\ lPc = "idle"
    /\ li = 1
    /\ saved = {}
    /\ attempts = <<>>
    /\ lrun = 1
    \* main of step2.py is not running
    /\ mPc = "idle"
    /\ has_key = FALSE
    /\ processed_data = 0

ChunkShortStripped ==
    /\ cPc = "start"
    /\ UNCHANGED <<embedVars, qaVars, seqVars, saveVars,
                    normVars, convVars, parseVars, mainVars>>
    /\ Len(text) <= max_length
    /\ result' = <<Strip(text)>>
    /\ cPc' = "done"
    /\ UNCHANGED <<text, max_length, sentences, sidx, current_chunk, chunks>>

\* step2.py:32-33: a text that fits is returned as it is.
ChunkShort ==
    /\ cPc = "start"
    /\ UNCHANGED <<embedVars, qaVars, seqVars, saveVars,
                    normVars, convVars, parseVars, mainVars>>
    /\ Len(text) <= max_length
    /\ result' = <<text>>
    /\ cPc' = "done"
    /\ UNCHANGED <<text, max_length, sentences, sidx, current_chunk, chunks>>

\* step2.py:35-37: a longer text is split into sentences.
ChunkSplit ==
    /\ cPc = "start"
    /\ UNCHANGED <<embedVars, qaVars, seqVars, saveVars,
                    normVars, convVars, parseVars, mainVars>>
    /\ Len(text) > max_length
    /\ sentences' = ReSplit(text)
    /\ sidx' = 1
    /\ current_chunk' = <<>>
    /\ chunks' = <<>>
    /\ cPc' = "loop"
    /\ UNCHANGED <<text, max_length, result>>

ChunkSentenceLeq ==
    /\ UNCHANGED <<embedVars, qaVars, seqVars, saveVars,
                    normVars, convVars, parseVars, mainVars>>
    /\ cPc = "loop"
    /\ sidx <= Len(sentences)
    /\ LET sentence == Strip(sentences[sidx])
       IN  IF sentence = <<>>
             THEN UNCHANGED <<current_chunk, chunks>>
             ELSE IF Len(current_chunk) + Len(sentence) <= max_length
               THEN /\ current_chunk' = current_chunk \o sentence \o Separator
                    /\ UNCHANGED chunks
               ELSE /\ chunks' = IF current_chunk # <<>>
                                   THEN Append(chunks, Strip(current_chunk))
                                   ELSE chunks
                    /\ current_chunk' = sentence \o Separator
    /\ sidx' = sidx + 1
    /\ UNCHANGED <<text, max_length, cPc, sentences, result>>

\* step2.py:39-49: one pass of the for loop.
ChunkSentence ==
    /\ cPc = "loop"
    /\ UNCHANGED <<embedVars, qaVars, seqVars, saveVars,
                    normVars, convVars, parseVars, mainVars>>
    /\ sidx <= Len(sentences)
    /\ LET sentence == Strip(sentences[sidx])
       IN  IF sentence = <<>>
             THEN UNCHANGED <<current_chunk, chunks>>
             ELSE IF Len(current_chunk) + Len(sentence) < max_length
               THEN /\ current_chunk' = current_chunk \o sentence \o Separator
                    /\ UNCHANGED chunks
               ELSE /\ chunks' = IF current_chunk # <<>>
                                   THEN Append(chunks, Strip(current_chunk))
                                   ELSE chunks
                    /\ current_chunk' = sentence \o Separator
    /\ sidx' = sidx + 1
    /\ UNCHANGED <<text, max_length, cPc, sentences, result>>

\* step2.py:51-54: the last buffer is flushed; without any chunk the text
\* itself is returned.
ChunkReturn ==
    /\ cPc = "loop"
    /\ UNCHANGED <<embedVars, qaVars, seqVars, saveVars,
                    normVars, convVars, parseVars, mainVars>>
    /\ sidx > Len(sentences)
    /\ LET final == IF current_chunk # <<>>
                      THEN Append(chunks, Strip(current_chunk))
                      ELSE chunks
       IN  /\ chunks' = final
           /\ result' = IF final # <<>> THEN final ELSE <<text>>
    /\ cPc' = "done"
    /\ UNCHANGED <<text, max_length, sentences, sidx, current_chunk>>

NextChunk ==
    \/ ChunkShort
    \/ ChunkSplit
    \/ ChunkSentence
    \/ ChunkReturn

----------------------------------------------------------------------------
(* preprocess_korean_text, step2.py:20-28                                  *)

\* The characters of the modelled alphabets that [^\w\s가-힣] matches.
NotWordNorSpace == {".", "!", "?"}

CollapseWhitespaceSkipped(t) == t

\* re.sub(r'\s+', ' ', t): every run of whitespace becomes one blank.
RECURSIVE CollapseWhitespace(_)
CollapseWhitespace(t) ==
    IF t = <<>> THEN <<>>
    ELSE IF Head(t) \in Whitespace
      THEN <<" ">> \o CollapseWhitespace(LStrip(t))
      ELSE <<Head(t)>> \o CollapseWhitespace(Tail(t))

\* re.sub(r'[^\w\s가-힣]', ' ', t)
BlankSpecials(t) ==
    [p \in 1..Len(t) |-> IF t[p] \in NotWordNorSpace THEN " " ELSE t[p]]

PreprocessKoreanText(t) ==
    CollapseWhitespace(BlankSpecials(CollapseWhitespace(Strip(t))))

\* The characters of the modelled query texts: a letter, a Hangul
\* syllable, a blank, a line break and a special character.
QueryAlphabet == {"a", "종", " ", "\n", "?"}

QueryTexts(n) == UNION {[1..m -> QueryAlphabet] : m \in 0..n}

InitNormalize ==
    /\ query_text \in QueryTexts(MaxQueryLen)
    /\ ntext = query_text
    /\ nPc = "strip"
    \* the embedding generator is not running
    /\ dim = [m \in Models |-> 1]
    /\ nchunks = <<>>
    /\ ePc = "idle"
    /\ si = 1
    /\ cj = 1
    /\ mk = 1
    /\ chunk_embeddings = <<>>
    /\ embeddings = <<>>
    /\ calls = <<>>
    \* chunk_text is not running
    /\ text = <<>>
    /\ max_length = 1
    /\ cPc = "idle"
    /\ sentences = <<>>
    /\ sidx = 1
    /\ current_chunk = <<>>
    /\ chunks = <<>>
    /\ result = <<>>
    \* step3.py is not running
    /\ collection = [exists |-> FALSE, points |-> <<>>]
    /\ iPc = "idle"
    /\ rebuilds = 0
    /\ qPc = "idle"
    /\ line = <<>>
    /\ question = <<>>
    /\ state = [question |-> <<>>, documents |-> <<>>, answer |-> <<>>]
    /\ rresult = [question |-> <<>>, documents |-> <<>>, answer |-> <<>>]
    /\ nodes = <<>>
    /\ seen = [exists |-> FALSE, points |-> <<>>]
    /\ qcalls = <<>>
    /\ searched = <<>>
    /\ lastEvent = "none"
    /\ reported = FALSE
    /\ hadFailure = FALSE
    /\ stdinOpen = TRUE
    /\ errorLines = 0
    \* create_multimodal_sequences is not running
    /\ builder = "step2"
    /\ md_content = <<>>
    /\ image_files = <<>>
    /\ captions = {}
    /\ bPc = "idle"
    /\ matches = <<>>
    /\ mi = 1
    /\ current_pos = 1
    /\ multimodal_content = <<>>
    /\ sequences = <<>>
    \* save_to_qdrant is not running
    /\ qdrant = [exists |-> FALSE]
    /\ prior = [exists |-> FALSE]
    /\ vPc = "idle"
    /\ points = <<>>
    /\ query = [outcome |-> "none"]
    /\ hits = <<>>
    \* step1.py is not running
    /\ pdf_files = <<>>
    /\ kPc = "idle"
    /\ ki = 1
    /\ successful_count = 0
    /\ failed_count = 0
    /\ counts = [none |-> TRUE]
    \* llama_parse.py is not running
    /\ lpdfs = <<>>
    /\ lPc = "idle"
    /\ li = 1
    /\ saved = {}
    /\ attempts = <<>>
    /\ lrun = 1
    \* main of step2.py is not running
    /\ mPc = "idle"
    /\ has_key = FALSE
    /\ processed_data = 0

\* step2.py:23: text = re.sub(r'\s+', ' ', text.strip())
NormStripCollapse ==
    /\ nPc = "strip"
    /\ ntext' = CollapseWhitespace(Strip(ntext))
    /\ nPc' = "blank"
    /\ UNCHANGED query_text
    /\ UNCHANGED <<embedVars, chunkVars, qaVars, seqVars,
                    saveVars, convVars, parseVars, mainVars>>

\* step2.py:25: text = re.sub(r'[^\w\s가-힣]', ' ', text)
NormBlankSpecials ==
    /\ nPc = "blank"
    /\ ntext' = BlankSpecials(ntext)
    /\ nPc' = "collapse"
    /\ UNCHANGED query_text
    /\ UNCHANGED <<embedVars, chunkVars, qaVars, seqVars,
                    saveVars, convVars, parseVars, mainVars>>

\* step2.py:27: text = re.sub(r'\s+', ' ', text)
NormCollapse ==
    /\ nPc = "collapse"
    /\ ntext' = CollapseWhitespace(ntext)
    /\ nPc' = "return"
    /\ UNCHANGED query_text
    /\ UNCHANGED <<embedVars, chunkVars, qaVars, seqVars,
                    saveVars, convVars, parseVars, mainVars>>

\* step2.py:28: return text
NormReturn ==
    /\ nPc = "return"
    /\ nPc' = "returned"
    /\ UNCHANGED <<query_text, ntext>>
    /\ UNCHANGED <<embedVars, chunkVars, qaVars, seqVars,
                    saveVars, convVars, parseVars, mainVars>>

NextNormalize ==
    \/ NormStripCollapse
    \/ NormBlankSpecials
    \/ NormCollapse
    \/ NormReturn

----------------------------------------------------------------------------
(* step3.py: main, interactive_qa, the RAG workflow; and the rebuild of    *)
(* the collection by save_to_qdrant, step2.py:288-361, which another       *)
(* process may run while the session is open.                              *)

\* search_kwargs={"k": 10}
TopK == 10

\* OpenAIEmbeddings(model="text-embedding-3-small")
EmbeddingModel == "text-embedding-3-small"

\* ['quit', 'exit', '종료']
Tokens == {<<"q", "u", "i", "t">>, <<"e", "x", "i", "t">>, <<"종", "료">>}

\* The lines input() may return.
Lines ==
    { <<"q", "u", "i", "t">>, <<" ", "Q", "u", "I", "T", " ">>,
      <<"e", "x", "i", "t">>, <<"E", "X", "I", "T">>, <<"종", "료">>,
      <<>>, <<" ">>,
      <<"a", "?">>, <<" ", "b">>, <<"q", "u", "i", "t", "s">> }

LowerCh(c) ==
    CASE c = "Q" -> "q" [] c = "U" -> "u" [] c = "I" -> "i" [] c = "T" -> "t"
      [] c = "E" -> "e" [] c = "X" -> "x" [] OTHER -> c

\* str.lower()
Lower(t) == [p \in 1..Len(t) |-> LowerCh(t[p])]

IsTerminationTokenCaseSensitive(q) == q \in Tokens

\* step3.py:243: question.lower() in ['quit', 'exit', '종료']
IsTerminationToken(q) == Lower(q) \in Tokens

InitialStateFromLastResult(q) ==
    [question |-> q, documents |-> rresult.documents, answer |-> rresult.answer]

\* step3.py:252: the state rag_app.invoke starts from.
InitialState(q) == [question |-> q, documents |-> <<>>, answer |-> <<>>]

AfterFailureCrash == "crashed"

\* step3.py:262-263: except Exception prints the error; the while loop
\* goes on with the next input().
AfterFailure == "input"

NodeAfterRetrieveIfFound(docs) == IF docs = <<>> THEN "finished" ELSE "generate"

\* step3.py:220: workflow.add_edge("retrieve", "generate")
NodeAfterRetrieve(docs) == "generate"

\* The points one ingestion run upserts, each with a fresh id.
NewPoints(run, n) == [d \in 1..n |-> [run |-> run, doc |-> d]]

\* The similarity of a stored point to the query vector: a fixed function
\* of the embedded text and the point.
Score(q, p) == (Len(q) + p.doc) % 2

\* The points in non-increasing order of score, equal scores in index order.
RECURSIVE Ranked(_, _)
Ranked(q, ps) ==
    IF ps = <<>> THEN <<>>
    ELSE LET b == CHOOSE i \in 1..Len(ps) :
                    /\ \A j \in 1..Len(ps) : Score(q, ps[j]) <= Score(q, ps[i])
                    /\ \A j \in 1..(i - 1) : Score(q, ps[j]) < Score(q, ps[i])
         IN  <<ps[b]>> \o Ranked(q, SubSeq(ps, 1, b - 1) \o SubSeq(ps, b + 1, Len(ps)))

SearchRaisesOnEmpty(coll) == ~coll.exists \/ coll.points = <<>>

\* A search in a collection that does not exist raises.
SearchRaises(coll) == ~coll.exists

\* retriever.invoke: the k nearest points of the collection.
Search(q, coll, k) ==
    LET r == Ranked(q, coll.points)
    IN  SubSeq(r, 1, IF Len(r) < k THEN Len(r) ELSE k)

\* chain.invoke({"context": ..., "question": ...}): the answer the
\* generation service gives to this prompt.
LLMAnswer(docs, q) == <<q, docs>>

InitQA ==
    /\ collection \in {[exists |-> FALSE, points |-> <<>>]}
                        \cup {[exists |-> TRUE, points |-> NewPoints(0, n)] :
                                n \in 0..MaxPoints}
    /\ iPc = "idle"
    /\ rebuilds = 0
    /\ qPc = "check"
    /\ line = <<>>
    /\ question = <<>>
    /\ state = [question |-> <<>>, documents |-> <<>>, answer |-> <<>>]
    /\ rresult = [question |-> <<>>, documents |-> <<>>, answer |-> <<>>]
    /\ nodes = <<>>
    /\ seen = [exists |-> FALSE, points |-> <<>>]
    /\ qcalls = <<>>
    /\ searched = <<>>
    /\ lastEvent = "none"
    /\ reported = FALSE
    /\ hadFailure = FALSE
    /\ stdinOpen = TRUE
    /\ errorLines = 0
    \* the embedding generator is not running
    /\ dim = [m \in Models |-> 1]
    /\ nchunks = <<>>
    /\ ePc = "idle"
    /\ si = 1
    /\ cj = 1
    /\ mk = 1
    /\ chunk_embeddings = <<>>
    /\ embeddings = <<>>
    /\ calls = <<>>
    \* chunk_text is not running
    /\ text = <<>>
    /\ max_length = 1
    /\ cPc = "idle"
    /\ sentences = <<>>
    /\ sidx = 1
    /\ current_chunk = <<>>
    /\ chunks = <<>>
    /\ result = <<>>
    \* create_multimodal_sequences is not running
    /\ builder = "step2"
    /\ md_content = <<>>
    /\ image_files = <<>>
    /\ captions = {}
    /\ bPc = "idle"
    /\ matches = <<>>
    /\ mi = 1
    /\ current_pos = 1
    /\ multimodal_content = <<>>
    /\ sequences = <<>>
    \* save_to_qdrant is not running
    /\ qdrant = [exists |-> FALSE]
    /\ prior = [exists |-> FALSE]
    /\ vPc = "idle"
    /\ points = <<>>
    /\ query = [outcome |-> "none"]
    /\ hits = <<>>
    \* preprocess_korean_text is not running
    /\ query_text = <<>>
    /\ ntext = <<>>
    /\ nPc = "idle"
    \* step1.py is not running
    /\ pdf_files = <<>>
    /\ kPc = "idle"
    /\ ki = 1
    /\ successful_count = 0
    /\ failed_count = 0
    /\ counts = [none |-> TRUE]
    \* llama_parse.py is not running
    /\ lpdfs = <<>>
    /\ lPc = "idle"
    /\ li = 1
    /\ saved = {}
    /\ attempts = <<>>
    /\ lrun = 1
    \* main of step2.py is not running
    /\ mPc = "idle"
    /\ has_key = FALSE
    /\ processed_data = 0

IngestDeleteSkipped ==
    /\ iPc = "idle"
    /\ rebuilds < MaxRebuilds
    /\ collection' = collection
    /\ iPc' = "deleted"
    /\ UNCHANGED <<embedVars, chunkVars, seqVars, saveVars,
                    normVars, convVars, parseVars, mainVars>>
    /\ UNCHANGED <<stdinOpen, errorLines>>
    /\ UNCHANGED <<rebuilds, qPc, line, question, state, rresult, nodes, seen,
                   qcalls, searched, lastEvent, reported, hadFailure>>

\* step2.py:296-301: save_to_qdrant deletes the collection, if there is one.
IngestDelete ==
    /\ iPc = "idle"
    /\ rebuilds < MaxRebuilds
    /\ collection' = [exists |-> FALSE, points |-> <<>>]
    /\ iPc' = "deleted"
    /\ UNCHANGED <<embedVars, chunkVars, seqVars, saveVars,
                    normVars, convVars, parseVars, mainVars>>
    /\ UNCHANGED <<stdinOpen, errorLines>>
    /\ UNCHANGED <<rebuilds, qPc, line, question, state, rresult, nodes, seen,
                   qcalls, searched, lastEvent, reported, hadFailure>>

\* step2.py:310-318: it creates the collection again, empty.
IngestCreate ==
    /\ iPc = "deleted"
    /\ collection' = [exists |-> TRUE, points |-> <<>>]
    /\ iPc' = "created"
    /\ UNCHANGED <<embedVars, chunkVars, seqVars, saveVars,
                    normVars, convVars, parseVars, mainVars>>
    /\ UNCHANGED <<stdinOpen, errorLines>>
    /\ UNCHANGED <<rebuilds, qPc, line, question, state, rresult, nodes, seen,
                   qcalls, searched, lastEvent, reported, hadFailure>>

\* step2.py:356: the server applies the points of the upsert request one
\* by one; while the request is being served a reader finds the first k of
\* them.
IngestUpsertPart ==
    /\ iPc = "created"
    /\ \E k \in 1..(MaxPoints - 1) :
         collection' = [exists |-> TRUE, points |-> NewPoints(rebuilds + 1, k)]
    /\ iPc' = "upserting"
    /\ UNCHANGED <<embedVars, chunkVars, seqVars, saveVars,
                    normVars, convVars, parseVars, mainVars>>
    /\ UNCHANGED <<stdinOpen, errorLines>>
    /\ UNCHANGED <<rebuilds, qPc, line, question, state, rresult, nodes, seen,
                   qcalls, searched, lastEvent, reported, hadFailure>>

\* step2.py:322-356: it upserts one point per embedding of the batch, which
\* main (step2.py:490) has found non-empty.
IngestUpsert ==
    /\ iPc \in {"created", "upserting"}
    /\ \E n \in (Len(collection.points) + 1)..MaxPoints :
         collection' = [exists |-> TRUE, points |-> NewPoints(rebuilds + 1, n)]
    /\ iPc' = "idle"
    /\ rebuilds' = rebuilds + 1
    /\ UNCHANGED <<embedVars, chunkVars, seqVars, saveVars,
                    normVars, convVars, parseVars, mainVars>>
    /\ UNCHANGED <<stdinOpen, errorLines>>
    /\ UNCHANGED <<qPc, line, question, state, rresult, nodes, seen,
                   qcalls, searched, lastEvent, reported, hadFailure>>

\* step3.py:24-51, 276-280: without any collection main returns.
MainCheckCollections ==
    /\ qPc = "check"
    /\ qPc' = IF collection.exists THEN "load" ELSE "stopped"
    /\ UNCHANGED <<embedVars, chunkVars, seqVars, saveVars,
                    normVars, convVars, parseVars, mainVars>>
    /\ UNCHANGED <<stdinOpen, errorLines>>
    /\ UNCHANGED <<collection, iPc, rebuilds, line, question, state, rresult,
                   nodes, seen, qcalls, searched, lastEvent, reported, hadFailure>>

\* step3.py:53-93, 284-300: without any point (or without the collection)
\* main returns; otherwise it builds the retriever and the workflow and
\* enters interactive_qa.
MainLoadData ==
    /\ qPc = "load"
    /\ qPc' = IF collection.exists /\ collection.points # <<>>
                THEN "input" ELSE "stopped"
    /\ UNCHANGED <<embedVars, chunkVars, seqVars, saveVars,
                    normVars, convVars, parseVars, mainVars>>
    /\ UNCHANGED <<stdinOpen, errorLines>>
    /\ UNCHANGED <<collection, iPc, rebuilds, line, question, state, rresult,
                   nodes, seen, qcalls, searched, lastEvent, reported, hadFailure>>

\* step3.py:241-252: a line is read and stripped; a termination token ends
\* the loop, an empty line is skipped, anything else starts the workflow.
ReadLine ==
    /\ qPc = "input"
    /\ stdinOpen
    /\ \E l \in Lines :
         /\ line' = l
         /\ question' = Strip(l)
         /\ IF IsTerminationToken(Strip(l))
              THEN /\ qPc' = "exited"
                   /\ lastEvent' = "token"
                   /\ UNCHANGED <<state, nodes, qcalls, searched>>
              ELSE IF Strip(l) = <<>>
                THEN /\ qPc' = "input"
                     /\ lastEvent' = "empty"
                     /\ UNCHANGED <<state, nodes, qcalls, searched>>
                ELSE /\ qPc' = "retrieve"
                     /\ lastEvent' = "question"
                     /\ state' = InitialState(Strip(l))
                     /\ nodes' = <<>>
                     /\ qcalls' = <<>>
                     /\ searched' = <<>>
    /\ reported' = FALSE
    /\ UNCHANGED <<embedVars, chunkVars, seqVars, saveVars,
                    normVars, convVars, parseVars, mainVars>>
    /\ UNCHANGED <<stdinOpen, errorLines>>
    /\ UNCHANGED <<collection, iPc, rebuilds, rresult, seen, hadFailure>>

\* step3.py:241, 262-263: input() raises EOFError, an Exception: the error
\* line is printed and the loop goes on. A terminal may deliver further
\* lines after an end-of-input; a file or a pipe that is exhausted raises
\* EOFError on every later read.
ReadEOF ==
    /\ qPc = "input"
    /\ qPc' = AfterFailure
    /\ lastEvent' = "eof"
    /\ reported' = TRUE
    /\ \E exhausted \in BOOLEAN : stdinOpen' = (stdinOpen /\ ~exhausted)
    /\ errorLines' = (errorLines + 1) % 2
    /\ UNCHANGED <<embedVars, chunkVars, seqVars, saveVars,
                    normVars, convVars, parseVars, mainVars>>
    /\ UNCHANGED <<collection, iPc, rebuilds, line, question, state, rresult,
                   nodes, seen, qcalls, searched, hadFailure>>

\* step3.py:259-261: KeyboardInterrupt, at the prompt or during the
\* workflow, ends the loop.
KeyboardInterrupt ==
    /\ qPc \in {"input", "retrieve", "generate", "finished"}
    /\ qPc' = "exited"
    /\ lastEvent' = "interrupt"
    /\ UNCHANGED <<embedVars, chunkVars, seqVars, saveVars,
                    normVars, convVars, parseVars, mainVars>>
    /\ UNCHANGED <<stdinOpen, errorLines>>
    /\ UNCHANGED <<collection, iPc, rebuilds, line, question, state, rresult,
                   nodes, seen, qcalls, searched, reported, hadFailure>>

\* step3.py:172-183 with the retriever of step3.py:95-124: the raw question
\* is embedded by the one OpenAI model and the k nearest points are
\* fetched; a failure of either call leaves rag_app.invoke as an exception,
\* which interactive_qa catches.
Retrieve ==
    /\ qPc = "retrieve"
    /\ nodes' = Append(nodes, "retrieve")
    /\ seen' = collection
    /\ \E ok \in BOOLEAN :
         /\ qcalls' = <<[model |-> EmbeddingModel, text |-> state.question, ok |-> ok]>>
         /\ searched' = IF ok THEN <<[limit |-> TopK]>> ELSE <<>>
         /\ IF ok /\ ~SearchRaises(collection)
              THEN LET docs == Search(state.question, collection, TopK)
                   IN  /\ state' = [question |-> state.question,
                                    documents |-> docs,
                                    answer |-> <<>>]
                       /\ qPc' = NodeAfterRetrieve(docs)
                       /\ lastEvent' = "retrieved"
                       /\ UNCHANGED <<reported, hadFailure, errorLines>>
              ELSE /\ qPc' = AfterFailure
                   /\ lastEvent' = "retrieve_failed"
                   /\ reported' = TRUE
                   /\ hadFailure' = TRUE
                   /\ errorLines' = (errorLines + 1) % 2
                   /\ UNCHANGED state
    /\ UNCHANGED <<embedVars, chunkVars, seqVars, saveVars,
                    normVars, convVars, parseVars, mainVars>>
    /\ UNCHANGED stdinOpen
    /\ UNCHANGED <<collection, iPc, rebuilds, line, question, rresult>>

\* step3.py:185-209: the documents' text is the context of the prompt; the
\* generation service answers or raises.
Generate ==
    /\ qPc = "generate"
    /\ nodes' = Append(nodes, "generate")
    /\ \E ok \in BOOLEAN :
         IF ok
           THEN /\ state' = [question |-> state.question,
                             documents |-> state.documents,
                             answer |-> LLMAnswer(state.documents, state.question)]
                /\ qPc' = "finished"
                /\ lastEvent' = "generated"
                /\ UNCHANGED <<reported, hadFailure, errorLines>>
           ELSE /\ qPc' = AfterFailure
                /\ lastEvent' = "generate_failed"
                /\ reported' = TRUE
                /\ hadFailure' = TRUE
                /\ errorLines' = (errorLines + 1) % 2
                /\ UNCHANGED state
    /\ UNCHANGED <<embedVars, chunkVars, seqVars, saveVars,
                    normVars, convVars, parseVars, mainVars>>
    /\ UNCHANGED stdinOpen
    /\ UNCHANGED <<collection, iPc, rebuilds, line, question, rresult, seen,
                   qcalls, searched>>

\* step3.py:221, 253-257: the workflow has reached END; its state is the
\* result, whose answer and document count are printed.
PrintAnswer ==
    /\ qPc = "finished"
    /\ rresult' = state
    /\ qPc' = "input"
    /\ lastEvent' = "printed"
    /\ UNCHANGED <<embedVars, chunkVars, seqVars, saveVars,
                    normVars, convVars, parseVars, mainVars>>
    /\ UNCHANGED <<stdinOpen, errorLines>>
    /\ UNCHANGED <<collection, iPc, rebuilds, line, question, state, nodes,
                   seen, qcalls, searched, reported, hadFailure>>

NextQA ==
    \/ IngestDelete
    \/ IngestCreate
    \/ IngestUpsertPart
    \/ IngestUpsert
    \/ MainCheckCollections
    \/ MainLoadData
    \/ ReadLine
    \/ ReadEOF
    \/ KeyboardInterrupt
    \/ Retrieve
    \/ Generate
    \/ PrintAnswer

----------------------------------------------------------------------------
(* create_multimodal_sequences, step2.py:106-192 and v_embed.py:59-138,    *)
(* after the caption step of step1.py:157-239.                             *)

\* One image reference of the markdown text, which the patterns of
\* step2.py:121 and v_embed.py:77 match as a whole: a single token of the
\* modelled text.
ImageMarker == "![](img)"

\* The tokens of the modelled markdown: two letters, a blank, the marker.
MdAlphabet == {"a", "b", " ", ImageMarker}

MdTexts(n) == UNION {[1..m -> MdAlphabet] : m \in 0..n}

\* The image lists: the k-th discovered file has the name k; a file may
\* fail to open (step2.py:140-143, 160-161).
ImageLists(n) ==
    UNION {{[k \in 1..m |-> [name |-> k, readable |-> r[k]]] :
              r \in [1..m -> BOOLEAN]} : m \in 0..n}

\* list(re.finditer(image_pattern, md_content)): the positions of the
\* markers, left to right.
Finditer(md) ==
    SelectSeq([p \in 1..Len(md) |-> p], LAMBDA p : md[p] = ImageMarker)

\* The caption the caption service gives for the image of this name.
Caption(name) == <<name>>

\* re.findall(caption_pattern, captioned_content), step2.py:147-148: step1
\* replaced the reference of every captioned image by its caption and left
\* the others, so the captions found are those of the captioned images, in
\* the order of their references, k being the first reference looked at.
RECURSIVE CaptionMatches(_, _, _)
CaptionMatches(caps, k, n) ==
    IF k > n THEN <<>>
    ELSE (IF k \in caps THEN <<Caption(k)>> ELSE <<>>)
           \o CaptionMatches(caps, k + 1, n)

\* The caption of the image segment of marker i (1-based) for the file of
\* this name: step2.py:146-150 takes the i-th caption found in the
\* captioned text, v_embed.py:74, 104 looks the name up in caption_map.
CaptionFor(bld, caps, n, i, name) ==
    IF bld = "step2"
      THEN LET caption_matches == CaptionMatches(caps, 1, n)
           IN  IF i <= Len(caption_matches) THEN caption_matches[i] ELSE <<>>
      ELSE IF name \in caps THEN Caption(name) ELSE <<>>

TextSegment(c) == [type |-> "text", content |-> c]

\* An image segment; its content is the encoded file.
ImageSegment(name, caption) ==
    [type |-> "image", content |-> <<"data:image/png;base64">>,
     image_name |-> name, caption |-> caption]

ImageFileFirst(files, i) == files[1]

\* image_files[i], i being 1-based here
ImageFile(files, i) == files[i]

HasImageButLast(files, i) == i < Len(files)

\* step2.py:136: i < len(image_files), i being 1-based here
HasImage(files, i) == i <= Len(files)

\* md_content[current_pos:match.start()].strip()
TextBefore(md, pos, p) == Strip(SubSeq(md, pos, p - 1))

TextAfterDropped(md, pos) == <<>>

\* md_content[current_pos:].strip()
TextAfter(md, pos) == Strip(SubSeq(md, pos, Len(md)))

InitSeq ==
    /\ builder \in {"step2", "v_embed"}
    /\ md_content \in MdTexts(MaxMdLen)
    /\ image_files \in ImageLists(MaxImages)
    /\ captions = {}
    /\ bPc = "caption"
    /\ matches = <<>>
    /\ mi = 1
    /\ current_pos = 1
    /\ multimodal_content = <<>>
    /\ sequences = <<>>
    \* the embedding generator is not running
    /\ dim = [m \in Models |-> 1]
    /\ nchunks = <<>>
    /\ ePc = "idle"
    /\ si = 1
    /\ cj = 1
    /\ mk = 1
    /\ chunk_embeddings = <<>>
    /\ embeddings = <<>>
    /\ calls = <<>>
    \* chunk_text is not running
    /\ text = <<>>
    /\ max_length = 1
    /\ cPc = "idle"
    /\ sentences = <<>>
    /\ sidx = 1
    /\ current_chunk = <<>>
    /\ chunks = <<>>
    /\ result = <<>>
    \* step3.py is not running
    /\ collection = [exists |-> FALSE, points |-> <<>>]
    /\ iPc = "idle"
    /\ rebuilds = 0
    /\ qPc = "idle"
    /\ line = <<>>
    /\ question = <<>>
    /\ state = [question |-> <<>>, documents |-> <<>>, answer |-> <<>>]
    /\ rresult = [question |-> <<>>, documents |-> <<>>, answer |-> <<>>]
    /\ nodes = <<>>
    /\ seen = [exists |-> FALSE, points |-> <<>>]
    /\ qcalls = <<>>
    /\ searched = <<>>
    /\ lastEvent = "none"
    /\ reported = FALSE
    /\ hadFailure = FALSE
    /\ stdinOpen = TRUE
    /\ errorLines = 0
    \* save_to_qdrant is not running
    /\ qdrant = [exists |-> FALSE]
    /\ prior = [exists |-> FALSE]
    /\ vPc = "idle"
    /\ points = <<>>
    /\ query = [outcome |-> "none"]
    /\ hits = <<>>
    \* preprocess_korean_text is not running
    /\ query_text = <<>>
    /\ ntext = <<>>
    /\ nPc = "idle"
    \* step1.py is not running
    /\ pdf_files = <<>>
    /\ kPc = "idle"
    /\ ki = 1
    /\ successful_count = 0
    /\ failed_count = 0
    /\ counts = [none |-> TRUE]
    \* llama_parse.py is not running
    /\ lpdfs = <<>>
    /\ lPc = "idle"
    /\ li = 1
    /\ saved = {}
    /\ attempts = <<>>
    /\ lrun = 1
    \* main of step2.py is not running
    /\ mPc = "idle"
    /\ has_key = FALSE
    /\ processed_data = 0

\* step1.py:197-237 (for v_embed.py, the step that wrote the captions
\* file): every image reference whose file exists is sent to the caption
\* service, which returns a caption or fails; the failure is printed and
\* the image stays without caption.
CreateImageCaptions ==
    /\ bPc = "caption"
    /\ \E caps \in SUBSET {k \in 1..Len(Finditer(md_content)) : k <= Len(image_files)} :
         captions' = caps
    /\ bPc' = "start"
    /\ UNCHANGED <<embedVars, chunkVars, qaVars, saveVars,
                    normVars, convVars, parseVars, mainVars>>
    /\ UNCHANGED <<builder, md_content, image_files, matches, mi, current_pos,
                   multimodal_content, sequences>>

\* step2.py:181-190: without any marker the whole text is the one text
\* segment of the sequence.
SeqNoMarkers ==
    /\ bPc = "start"
    /\ Finditer(md_content) = <<>>
    /\ sequences' = Append(sequences,
           [pdf_name |-> 1,
            multimodal_content |-> <<TextSegment(md_content)>>])
    /\ bPc' = "done"
    /\ UNCHANGED <<embedVars, chunkVars, qaVars, saveVars,
                    normVars, convVars, parseVars, mainVars>>
    /\ UNCHANGED <<builder, md_content, image_files, captions, matches, mi,
                   current_pos, multimodal_content>>

\* step2.py:121-127: the markers are found and the loop over them starts.
SeqBegin ==
    /\ bPc = "start"
    /\ Finditer(md_content) # <<>>
    /\ matches' = Finditer(md_content)
    /\ mi' = 1
    /\ current_pos' = 1
    /\ multimodal_content' = <<>>
    /\ bPc' = "loop"
    /\ UNCHANGED <<embedVars, chunkVars, qaVars, saveVars,
                    normVars, convVars, parseVars, mainVars>>
    /\ UNCHANGED <<builder, md_content, image_files, captions, sequences>>

\* step2.py:129-163: one pass of the loop: the text before the marker, if
\* any is left after strip(), then the image of the same index, if there is
\* one and it can be read.
SeqMarker ==
    /\ bPc = "loop"
    /\ mi <= Len(matches)
    /\ LET text_before == TextBefore(md_content, current_pos, matches[mi])
           with_text == IF text_before # <<>>
                          THEN Append(multimodal_content, TextSegment(text_before))
                          ELSE multimodal_content
       IN  multimodal_content' =
             IF HasImage(image_files, mi) /\ ImageFile(image_files, mi).readable
               THEN Append(with_text,
                      ImageSegment(ImageFile(image_files, mi).name,
                                   CaptionFor(builder, captions, Len(matches), mi,
                                              ImageFile(image_files, mi).name)))
               ELSE with_text
    /\ current_pos' = matches[mi] + 1
    /\ mi' = mi + 1
    /\ UNCHANGED <<embedVars, chunkVars, qaVars, saveVars,
                    normVars, convVars, parseVars, mainVars>>
    /\ UNCHANGED <<builder, md_content, image_files, captions, bPc, matches,
                   sequences>>

\* step2.py:165-179: the text after the last marker, if any is left after
\* strip(), and the sequence is appended to the result.
SeqFinish ==
    /\ bPc = "loop"
    /\ mi > Len(matches)
    /\ LET text_after == TextAfter(md_content, current_pos)
           final == IF text_after # <<>>
                      THEN Append(multimodal_content, TextSegment(text_after))
                      ELSE multimodal_content
       IN  /\ multimodal_content' = final
           /\ sequences' = Append(sequences,
                  [pdf_name |-> 1, multimodal_content |-> final])
    /\ bPc' = "done"
    /\ UNCHANGED <<embedVars, chunkVars, qaVars, saveVars,
                    normVars, convVars, parseVars, mainVars>>
    /\ UNCHANGED <<builder, md_content, image_files, captions, matches, mi,
                   current_pos>>

NextSeq ==
    \/ CreateImageCaptions
    \/ SeqNoMarkers
    \/ SeqBegin
    \/ SeqMarker
    \/ SeqFinish

----------------------------------------------------------------------------
(* save_to_qdrant, step2.py:288-361, and the Qdrant server it talks to.    *)

\* step2.py:308: the width used for an empty batch.
DefaultVectorSize == 1536

\* What step2.py:271-277 appends for sequence s when its one chunk was
\* served by model m.
DocumentEmbedding(s, m) ==
    [pdf_name |-> s,
     embedding |-> NpMean(<<EmbedResult(s, 1, m)>>),
     chunks |-> <<[chunk_index |-> 0,
                   embedding |-> EmbedResult(s, 1, m),
                   model_used |-> m]>>]

\* The batches create_voyage_multimodal_embeddings returns to main, which
\* hands only a non-empty one to save_to_qdrant (step2.py:487-494): each
\* document served by any of the candidate models.
ReturnedBatches(n) ==
    UNION {{[s \in 1..len |-> DocumentEmbedding(s, served[s])] :
              served \in [1..len -> Models]} : len \in 1..n}

\* The points an earlier run left in a collection of width d.
OldPoints(n, d) ==
    [j \in 1..n |-> [id |-> NewPoints(0, n)[j],
                     vector |-> [k \in 1..d |-> [num |-> 0, den |-> 1]],
                     payload |-> [pdf_name |-> j]]]

\* What the server may hold under the collection's name before the run.
PriorCollections ==
    {[exists |-> FALSE]}
      \cup {[exists |-> TRUE, size |-> d, distance |-> dist,
             points |-> OldPoints(n, d)] :
              d \in 1..MaxDim, dist \in {"Cosine", "Euclid"}, n \in 0..1}

EmptyCollectionKeepingPoints(size) ==
    [exists |-> TRUE, size |-> size, distance |-> "Cosine",
     points |-> IF prior.exists THEN prior.points ELSE <<>>]

\* step2.py:311-318: the collection create_collection makes.
EmptyCollection(size) ==
    [exists |-> TRUE, size |-> size, distance |-> "Cosine", points |-> <<>>]

PointStructByDocument(i, n, e) ==
    [id |-> [run |-> 0, doc |-> e.pdf_name],
     vector |-> e.embedding,
     payload |-> [pdf_name |-> e.pdf_name]]

\* step2.py:342-352: the point of the i-th embedding of a batch of n, with
\* its fresh uuid4 id.
PointStruct(i, n, e) ==
    [id |-> NewPoints(1, n)[i],
     vector |-> e.embedding,
     payload |-> [pdf_name |-> e.pdf_name]]

AcceptsAnyWidth(coll, p) == TRUE

\* The server takes a point only if its vector has the collection's width.
Accepts(coll, p) == Len(p.vector) = coll.size

InitSave ==
    /\ dim \in [Models -> 1..MaxDim]
    /\ embeddings \in ReturnedBatches(MaxPoints)
    /\ nchunks = <<>>
    /\ ePc = "idle"
    /\ si = 1
    /\ cj = 1
    /\ mk = 1
    /\ chunk_embeddings = <<>>
    /\ calls = <<>>
    /\ qdrant \in PriorCollections
    /\ prior = qdrant
    /\ vPc = "delete"
    /\ points = <<>>
    /\ query = [outcome |-> "none"]
    /\ hits = <<>>
    \* preprocess_korean_text is not running
    /\ query_text = <<>>
    /\ ntext = <<>>
    /\ nPc = "idle"
    \* step1.py is not running
    /\ pdf_files = <<>>
    /\ kPc = "idle"
    /\ ki = 1
    /\ successful_count = 0
    /\ failed_count = 0
    /\ counts = [none |-> TRUE]
    \* llama_parse.py is not running
    /\ lpdfs = <<>>
    /\ lPc = "idle"
    /\ li = 1
    /\ saved = {}
    /\ attempts = <<>>
    /\ lrun = 1
    \* main of step2.py is not running
    /\ mPc = "idle"
    /\ has_key = FALSE
    /\ processed_data = 0
    \* chunk_text is not running
    /\ text = <<>>
    /\ max_length = 1
    /\ cPc = "idle"
    /\ sentences = <<>>
    /\ sidx = 1
    /\ current_chunk = <<>>
    /\ chunks = <<>>
    /\ result = <<>>
    \* step3.py is not running
    /\ collection = [exists |-> FALSE, points |-> <<>>]
    /\ iPc = "idle"
    /\ rebuilds = 0
    /\ qPc = "idle"
    /\ line = <<>>
    /\ question = <<>>
    /\ state = [question |-> <<>>, documents |-> <<>>, answer |-> <<>>]
    /\ rresult = [question |-> <<>>, documents |-> <<>>, answer |-> <<>>]
    /\ nodes = <<>>
    /\ seen = [exists |-> FALSE, points |-> <<>>]
    /\ qcalls = <<>>
    /\ searched = <<>>
    /\ lastEvent = "none"
    /\ reported = FALSE
    /\ hadFailure = FALSE
    /\ stdinOpen = TRUE
    /\ errorLines = 0
    \* create_multimodal_sequences is not running
    /\ builder = "step2"
    /\ md_content = <<>>
    /\ image_files = <<>>
    /\ captions = {}
    /\ bPc = "idle"
    /\ matches = <<>>
    /\ mi = 1
    /\ current_pos = 1
    /\ multimodal_content = <<>>
    /\ sequences = <<>>

\* step2.py:296-301: the collection is deleted; the bare except passes
\* over the error of a collection that does not exist.
SaveDeleteCollection ==
    /\ vPc = "delete"
    /\ qdrant' = [exists |-> FALSE]
    /\ vPc' = "create"
    /\ UNCHANGED <<embedVars, chunkVars, qaVars, seqVars,
                    normVars, convVars, parseVars, mainVars>>
    /\ UNCHANGED <<query, hits>>
    /\ UNCHANGED <<prior, points>>

\* step2.py:303-320: the collection is created with the width of the first
\* embedding of the batch.
SaveCreateCollection ==
    /\ vPc = "create"
    /\ LET vector_size == IF embeddings # <<>>
                            THEN Len(embeddings[1].embedding)
                            ELSE DefaultVectorSize
       IN  qdrant' = EmptyCollection(vector_size)
    /\ vPc' = "points"
    /\ UNCHANGED <<embedVars, chunkVars, qaVars, seqVars,
                    normVars, convVars, parseVars, mainVars>>
    /\ UNCHANGED <<query, hits>>
    /\ UNCHANGED <<prior, points>>

\* step2.py:322-353: one point per embedding of the batch.
SaveBuildPoints ==
    /\ vPc = "points"
    /\ points' = [i \in 1..Len(embeddings) |->
                    PointStruct(i, Len(embeddings), embeddings[i])]
    /\ vPc' = "upsert"
    /\ UNCHANGED <<embedVars, chunkVars, qaVars, seqVars,
                    normVars, convVars, parseVars, mainVars>>
    /\ UNCHANGED <<query, hits>>
    /\ UNCHANGED <<qdrant, prior>>

\* step2.py:356-361: every point has the collection's width; the server
\* stores them all and save_to_qdrant returns.
SaveUpsert ==
    /\ vPc = "upsert"
    /\ \A i \in 1..Len(points) : Accepts(qdrant, points[i])
    /\ qdrant' = [qdrant EXCEPT !.points = qdrant.points \o points]
    /\ vPc' = "returned"
    /\ UNCHANGED <<embedVars, chunkVars, qaVars, seqVars,
                    normVars, convVars, parseVars, mainVars>>
    /\ UNCHANGED <<query, hits>>
    /\ UNCHANGED <<prior, points>>

\* step2.py:356: some point has another width; the server answers the
\* request with an error, which leaves save_to_qdrant and main as an
\* exception. The points of one request are applied one by one and not as
\* a transaction: any of the well-sized points may have been stored.
SaveUpsertRejected ==
    /\ vPc = "upsert"
    /\ \E i \in 1..Len(points) : ~Accepts(qdrant, points[i])
    /\ \E stored \in SUBSET {i \in 1..Len(points) : Accepts(qdrant, points[i])} :
         qdrant' = [qdrant EXCEPT !.points =
                      qdrant.points \o
                        SelectSeq(points, LAMBDA p : \E i \in stored : points[i] = p)]
    /\ vPc' = "raised"
    /\ UNCHANGED <<embedVars, chunkVars, qaVars, seqVars,
                    normVars, convVars, parseVars, mainVars>>
    /\ UNCHANGED <<query, hits>>
    /\ UNCHANGED <<prior, points>>

\* The dot product of two vectors of one width; the components of an
\* aggregated vector share their denominator, which the cosine ignores.
RECURSIVE Dot(_, _)
Dot(u, v) ==
    IF u = <<>> THEN 0
    ELSE Head(u).num * Head(v).num + Dot(Tail(u), Tail(v))

DotScore(q, v) == [dot |-> Dot(q, v), qq |-> 1, vv |-> 1]

\* Distance.COSINE (step2.py:315): the score of a stored vector v for the
\* query q is cos(q, v) = dot / sqrt(qq * vv). It is kept exactly, by its
\* three parts; a zero vector scores 0.
CosineScore(q, v) ==
    IF Dot(q, q) = 0 \/ Dot(v, v) = 0
      THEN [dot |-> 0, qq |-> 1, vv |-> 1]
      ELSE [dot |-> Dot(q, v), qq |-> Dot(q, q), vv |-> Dot(v, v)]

\* The square of a number, with the number's sign.
SignedSquare(d) == IF d < 0 THEN 0 - d * d ELSE d * d

\* a <= b for two scores of one query.
ScoreLeq(a, b) == SignedSquare(a.dot) * b.vv <= SignedSquare(b.dot) * a.vv

\* The orders in which n points can be listed.
Orders(n) ==
    {f \in [1..n -> 1..n] : \A a, b \in 1..n : f[a] = f[b] => a = b}

\* qdrant_client.search(collection_name, query_vector, limit),
\* step2.py:401-406: the limit best-scoring points, best first, each with
\* its id, score and payload. Points of equal score come in any order.
QdrantSearch(coll, q, limit) ==
    LET n == Len(coll.points)
        k == IF limit < n THEN limit ELSE n
        sc(i) == CosineScore(q, coll.points[i].vector)
    IN  {[r \in 1..k |-> [id |-> coll.points[f[r]].id,
                          score |-> sc(f[r]),
                          payload |-> coll.points[f[r]].payload]] :
           f \in {g \in Orders(n) :
                    \A a \in 1..(n - 1) : ScoreLeq(sc(g[a + 1]), sc(g[a]))}}

\* step2.py:363-431, called by test_search_functionality (step2.py:453)
\* once save_to_qdrant has returned: the query is embedded by the first
\* candidate model that answers (served), or by none; without a vector the
\* function returns []; with one it searches the collection. The query is
\* the text of document s. A vector of another width than the collection's
\* makes the server raise, and the error leaves the function. The calls of
\* test_search_functionality do not depend on one another: one is taken.
SearchSimilarDocuments ==
    /\ vPc = "returned"
    /\ \E s \in 1..MaxPoints, served \in Models \cup {"none"}, limit \in 1..MaxLimit :
         IF served = "none"
           THEN /\ query' = [outcome |-> "no_vector"]
                /\ hits' = <<>>
                /\ vPc' = "searched"
           ELSE LET query_vector == NpMean(<<EmbedResult(s, 1, served)>>)
                IN  IF Len(query_vector) # qdrant.size
                      THEN /\ query' = [outcome |-> "raised"]
                           /\ hits' = <<>>
                           /\ vPc' = "search_raised"
                      ELSE /\ query' = [outcome |-> "hits",
                                        vector |-> query_vector,
                                        limit |-> limit]
                           /\ hits' \in QdrantSearch(qdrant, query_vector, limit)
                           /\ vPc' = "searched"
    /\ UNCHANGED <<embedVars, chunkVars, qaVars, seqVars,
                    normVars, convVars, parseVars, mainVars>>
    /\ UNCHANGED <<qdrant, prior, points>>

NextSave ==
    \/ SaveDeleteCollection
    \/ SaveCreateCollection
    \/ SaveBuildPoints
    \/ SaveUpsert
    \/ SaveUpsertRejected
    \/ SearchSimilarDocuments

----------------------------------------------------------------------------
(* main and process_pdf_files of step1.py, lines 17-101 and 241-267.       *)

\* The contents of the input directory: per PDF, whether its conversion
\* and the saving of its outputs go through (TRUE) or raise (FALSE).
PdfDirectories(n) == UNION {[1..len -> BOOLEAN] : len \in 0..n}

InitConvert ==
    /\ pdf_files \in PdfDirectories(MaxPdfs)
    /\ kPc = "glob"
    /\ ki = 1
    /\ successful_count = 0
    /\ failed_count = 0
    /\ counts = [none |-> TRUE]
    \* the embedding generator is not running
    /\ dim = [m \in Models |-> 1]
    /\ nchunks = <<>>
    /\ ePc = "idle"
    /\ si = 1
    /\ cj = 1
    /\ mk = 1
    /\ chunk_embeddings = <<>>
    /\ embeddings = <<>>
    /\ calls = <<>>
    \* chunk_text is not running
    /\ text = <<>>
    /\ max_length = 1
    /\ cPc = "idle"
    /\ sentences = <<>>
    /\ sidx = 1
    /\ current_chunk = <<>>
    /\ chunks = <<>>
    /\ result = <<>>
    \* step3.py is not running
    /\ collection = [exists |-> FALSE, points |-> <<>>]
    /\ iPc = "idle"
    /\ rebuilds = 0
    /\ qPc = "idle"
    /\ line = <<>>
    /\ question = <<>>
    /\ state = [question |-> <<>>, documents |-> <<>>, answer |-> <<>>]
    /\ rresult = [question |-> <<>>, documents |-> <<>>, answer |-> <<>>]
    /\ nodes = <<>>
    /\ seen = [exists |-> FALSE, points |-> <<>>]
    /\ qcalls = <<>>
    /\ searched = <<>>
    /\ lastEvent = "none"
    /\ reported = FALSE
    /\ hadFailure = FALSE
    /\ stdinOpen = TRUE
    /\ errorLines = 0
    \* create_multimodal_sequences is not running
    /\ builder = "step2"
    /\ md_content = <<>>
    /\ image_files = <<>>
    /\ captions = {}
    /\ bPc = "idle"
    /\ matches = <<>>
    /\ mi = 1
    /\ current_pos = 1
    /\ multimodal_content = <<>>
    /\ sequences = <<>>
    \* save_to_qdrant is not running
    /\ qdrant = [exists |-> FALSE]
    /\ prior = [exists |-> FALSE]
    /\ vPc = "idle"
    /\ points = <<>>
    /\ query = [outcome |-> "none"]
    /\ hits = <<>>
    \* preprocess_korean_text is not running
    /\ query_text = <<>>
    /\ ntext = <<>>
    /\ nPc = "idle"
    \* llama_parse.py is not running
    /\ lpdfs = <<>>
    /\ lPc = "idle"
    /\ li = 1
    /\ saved = {}
    /\ attempts = <<>>
    /\ lrun = 1
    \* main of step2.py is not running
    /\ mPc = "idle"
    /\ has_key = FALSE
    /\ processed_data = 0

\* step1.py:32-34: what process_pdf_files returns for a directory without
\* PDF files: a bare return, that is None.
ReturnWhenEmpty == [none |-> TRUE]

\* step1.py:30-34: the directory has no PDF file; the function prints the
\* warning and returns.
ProcessNoFiles ==
    /\ kPc = "glob"
    /\ pdf_files = <<>>
    /\ counts' = ReturnWhenEmpty
    /\ kPc' = "returned"
    /\ UNCHANGED <<pdf_files, ki, successful_count, failed_count>>
    /\ UNCHANGED <<embedVars, chunkVars, qaVars, seqVars,
                    saveVars, normVars, parseVars, mainVars>>

\* step1.py:30-54: there are PDF files; the converter is set up and the
\* two counters start at 0.
ProcessBegin ==
    /\ kPc = "glob"
    /\ pdf_files # <<>>
    /\ successful_count' = 0
    /\ failed_count' = 0
    /\ ki' = 1
    /\ kPc' = "loop"
    /\ UNCHANGED <<pdf_files, counts>>
    /\ UNCHANGED <<embedVars, chunkVars, qaVars, seqVars,
                    saveVars, normVars, parseVars, mainVars>>

\* step1.py:56-93: one PDF is converted and saved, which counts as a
\* success, or something in the try block raises, which counts as a
\* failure; in both cases the loop goes on.
ProcessOne ==
    /\ kPc = "loop"
    /\ ki <= Len(pdf_files)
    /\ IF pdf_files[ki]
         THEN successful_count' = successful_count + 1 /\ UNCHANGED failed_count
         ELSE failed_count' = failed_count + 1 /\ UNCHANGED successful_count
    /\ ki' = ki + 1
    /\ UNCHANGED <<pdf_files, kPc, counts>>
    /\ UNCHANGED <<embedVars, chunkVars, qaVars, seqVars,
                    saveVars, normVars, parseVars, mainVars>>

\* step1.py:95-101: the loop is over; the counts are printed and returned.
ProcessReturn ==
    /\ kPc = "loop"
    /\ ki > Len(pdf_files)
    /\ counts' = [none |-> FALSE,
                  successful |-> successful_count,
                  failed |-> failed_count]
    /\ kPc' = "returned"
    /\ UNCHANGED <<pdf_files, ki, successful_count, failed_count>>
    /\ UNCHANGED <<embedVars, chunkVars, qaVars, seqVars,
                    saveVars, normVars, parseVars, mainVars>>

\* step1.py:249-251, 265-266: main unpacks the returned value into
\* (successful, failed); unpacking None raises TypeError, which nothing
\* catches. With a success main goes on to the analysis, without one it
\* prints that nothing was processed.
MainUnpack ==
    /\ kPc = "returned"
    /\ kPc' = IF counts.none THEN "raised"
              ELSE IF counts.successful > 0 THEN "analyze"
              ELSE "done"
    /\ UNCHANGED <<pdf_files, ki, successful_count, failed_count, counts>>
    /\ UNCHANGED <<embedVars, chunkVars, qaVars, seqVars,
                    saveVars, normVars, parseVars, mainVars>>

\* step1.py:252-254: analyze_document_structure.
MainAnalyze ==
    /\ kPc = "analyze"
    /\ kPc' = "captions"
    /\ UNCHANGED <<pdf_files, ki, successful_count, failed_count, counts>>
    /\ UNCHANGED <<embedVars, chunkVars, qaVars, seqVars,
                    saveVars, normVars, parseVars, mainVars>>

\* step1.py:256-264: create_image_captions_with_gemini, then the closing
\* lines.
MainCaptions ==
    /\ kPc = "captions"
    /\ kPc' = "done"
    /\ UNCHANGED <<pdf_files, ki, successful_count, failed_count, counts>>
    /\ UNCHANGED <<embedVars, chunkVars, qaVars, seqVars,
                    saveVars, normVars, parseVars, mainVars>>

NextConvert ==
    \/ ProcessNoFiles
    \/ ProcessBegin
    \/ ProcessOne
    \/ ProcessReturn
    \/ MainUnpack
    \/ MainAnalyze
    \/ MainCaptions

----------------------------------------------------------------------------
(* llama_parse.py, the script of lines 35-132, run once or again.          *)

\* What parser.get_json_result(pdf_path) can do: return pages, return no
\* page, raise an error whose text holds "429" or "Too Many Requests", or
\* raise another error.
ParseAnswers == {"pages", "empty", "rate_limit", "error"}

\* llama_parse.py:35: the PDF files of the data directory, by name.
PdfNames(n) == [i \in 1..n |-> i]

InitParse ==
    /\ \E n \in 0..MaxParsePdfs :
         /\ lpdfs = PdfNames(n)
         /\ saved \in SUBSET (1..n)
    /\ lPc = "loop"
    /\ li = 1
    /\ attempts = <<>>
    /\ lrun = 1
    \* the embedding generator is not running
    /\ dim = [m \in Models |-> 1]
    /\ nchunks = <<>>
    /\ ePc = "idle"
    /\ si = 1
    /\ cj = 1
    /\ mk = 1
    /\ chunk_embeddings = <<>>
    /\ embeddings = <<>>
    /\ calls = <<>>
    \* chunk_text is not running
    /\ text = <<>>
    /\ max_length = 1
    /\ cPc = "idle"
    /\ sentences = <<>>
    /\ sidx = 1
    /\ current_chunk = <<>>
    /\ chunks = <<>>
    /\ result = <<>>
    \* step3.py is not running
    /\ collection = [exists |-> FALSE, points |-> <<>>]
    /\ iPc = "idle"
    /\ rebuilds = 0
    /\ qPc = "idle"
    /\ line = <<>>
    /\ question = <<>>
    /\ state = [question |-> <<>>, documents |-> <<>>, answer |-> <<>>]
    /\ rresult = [question |-> <<>>, documents |-> <<>>, answer |-> <<>>]
    /\ nodes = <<>>
    /\ seen = [exists |-> FALSE, points |-> <<>>]
    /\ qcalls = <<>>
    /\ searched = <<>>
    /\ lastEvent = "none"
    /\ reported = FALSE
    /\ hadFailure = FALSE
    /\ stdinOpen = TRUE
    /\ errorLines = 0
    \* create_multimodal_sequences is not running
    /\ builder = "step2"
    /\ md_content = <<>>
    /\ image_files = <<>>
    /\ captions = {}
    /\ bPc = "idle"
    /\ matches = <<>>
    /\ mi = 1
    /\ current_pos = 1
    /\ multimodal_content = <<>>
    /\ sequences = <<>>
    \* save_to_qdrant is not running
    /\ qdrant = [exists |-> FALSE]
    /\ prior = [exists |-> FALSE]
    /\ vPc = "idle"
    /\ points = <<>>
    /\ query = [outcome |-> "none"]
    /\ hits = <<>>
    \* preprocess_korean_text is not running
    /\ query_text = <<>>
    /\ ntext = <<>>
    /\ nPc = "idle"
    \* step1.py is not running
    /\ pdf_files = <<>>
    /\ kPc = "idle"
    /\ ki = 1
    /\ successful_count = 0
    /\ failed_count = 0
    /\ counts = [none |-> TRUE]
    \* main of step2.py is not running
    /\ mPc = "idle"
    /\ has_key = FALSE
    /\ processed_data = 0

\* llama_parse.py:45-49: the JSON output of the PDF exists; it is skipped.
ParseSkip ==
    /\ lPc = "loop"
    /\ li <= Len(lpdfs)
    /\ lpdfs[li] \in saved
    /\ li' = li + 1
    /\ UNCHANGED <<lpdfs, lPc, saved, attempts, lrun>>
    /\ UNCHANGED <<embedVars, chunkVars, qaVars, seqVars,
                    saveVars, normVars, convVars, mainVars>>

\* llama_parse.py:51-117, 129: the first call for the PDF. Pages are saved
\* as JSON and markdown (81-97); an empty result is only reported (111); a
\* rate-limit error leads to the wait of 30 seconds and the retry; any
\* other error is reported and the loop continues.
ParseFirst ==
    /\ lPc = "loop"
    /\ li <= Len(lpdfs)
    /\ lpdfs[li] \notin saved
    /\ \E answer \in ParseAnswers :
         /\ attempts' = Append(attempts, [run |-> lrun, pdf |-> lpdfs[li],
                                          retry |-> FALSE, answer |-> answer])
         /\ saved' = IF answer = "pages" THEN saved \cup {lpdfs[li]} ELSE saved
         /\ IF answer = "rate_limit"
              THEN lPc' = "retry" /\ UNCHANGED li
              ELSE li' = li + 1 /\ UNCHANGED lPc
    /\ UNCHANGED <<lpdfs, lrun>>
    /\ UNCHANGED <<embedVars, chunkVars, qaVars, seqVars,
                    saveVars, normVars, convVars, mainVars>>

\* llama_parse.py:123-125: after a retry that succeeded only the success
\* line is printed; the saving logic is a comment, no file is written.
SavedAfterRetry(answer) == saved

\* llama_parse.py:119-129: after the wait the call is made once more; its
\* success or failure is printed and the loop continues.
ParseRetry ==
    /\ lPc = "retry"
    /\ \E answer \in ParseAnswers :
         /\ attempts' = Append(attempts, [run |-> lrun, pdf |-> lpdfs[li],
                                          retry |-> TRUE, answer |-> answer])
         /\ saved' = SavedAfterRetry(answer)
    /\ li' = li + 1
    /\ lPc' = "loop"
    /\ UNCHANGED <<lpdfs, lrun>>
    /\ UNCHANGED <<embedVars, chunkVars, qaVars, seqVars,
                    saveVars, normVars, convVars, mainVars>>

\* llama_parse.py:131-132: every PDF has been taken; the script ends.
ParseDone ==
    /\ lPc = "loop"
    /\ li > Len(lpdfs)
    /\ lPc' = "done"
    /\ UNCHANGED <<lpdfs, li, saved, attempts, lrun>>
    /\ UNCHANGED <<embedVars, chunkVars, qaVars, seqVars,
                    saveVars, normVars, convVars, mainVars>>

\* The script is run again over the same directories.
ParseRunAgain ==
    /\ lPc = "done"
    /\ lrun < MaxRuns
    /\ lrun' = lrun + 1
    /\ li' = 1
    /\ lPc' = "loop"
    /\ UNCHANGED <<lpdfs, saved, attempts>>
    /\ UNCHANGED <<embedVars, chunkVars, qaVars, seqVars,
                    saveVars, normVars, convVars, mainVars>>

NextParse ==
    \/ ParseSkip
    \/ ParseFirst
    \/ ParseRetry
    \/ ParseDone
    \/ ParseRunAgain

----------------------------------------------------------------------------
(* main of step2.py, lines 455-506, around the functions modelled above.   *)

\* The increasing enumeration of a set of sequence indices.
Ascending(S) ==
    CHOOSE f \in [1..Cardinality(S) -> S] :
      \A a, b \in 1..Cardinality(S) : a < b => f[a] < f[b]

\* What create_voyage_multimodal_embeddings can return for n input
\* sequences of one chunk each: the documents that were not dropped, in
\* input order, each served by one of the candidate models.
EmbeddedBatches(n) ==
    UNION {{[i \in 1..Cardinality(S) |->
               DocumentEmbedding(Ascending(S)[i], served[Ascending(S)[i]])] :
              served \in [S -> Models]} : S \in SUBSET (1..n)}

HasEmbeddingsAlways(e) == TRUE

\* step2.py:490: `if not embeddings` is false.
HasEmbeddings(e) == e # <<>>

InitMain ==
    /\ has_key \in BOOLEAN
    /\ processed_data \in 0..MaxPoints
    /\ mPc = "key"
    /\ dim \in [Models -> 1..MaxDim]
    /\ nchunks = <<>>
    /\ ePc = "idle"
    /\ si = 1
    /\ cj = 1
    /\ mk = 1
    /\ chunk_embeddings = <<>>
    /\ embeddings = <<>>
    /\ calls = <<>>
    /\ qdrant \in PriorCollections
    /\ prior = qdrant
    /\ vPc = "idle"
    /\ points = <<>>
    /\ query = [outcome |-> "none"]
    /\ hits = <<>>
    \* chunk_text is not running
    /\ text = <<>>
    /\ max_length = 1
    /\ cPc = "idle"
    /\ sentences = <<>>
    /\ sidx = 1
    /\ current_chunk = <<>>
    /\ chunks = <<>>
    /\ result = <<>>
    \* step3.py is not running
    /\ collection = [exists |-> FALSE, points |-> <<>>]
    /\ iPc = "idle"
    /\ rebuilds = 0
    /\ qPc = "idle"
    /\ line = <<>>
    /\ question = <<>>
    /\ state = [question |-> <<>>, documents |-> <<>>, answer |-> <<>>]
    /\ rresult = [question |-> <<>>, documents |-> <<>>, answer |-> <<>>]
    /\ nodes = <<>>
    /\ seen = [exists |-> FALSE, points |-> <<>>]
    /\ qcalls = <<>>
    /\ searched = <<>>
    /\ lastEvent = "none"
    /\ reported = FALSE
    /\ hadFailure = FALSE
    /\ stdinOpen = TRUE
    /\ errorLines = 0
    \* create_multimodal_sequences is not running
    /\ builder = "step2"
    /\ md_content = <<>>
    /\ image_files = <<>>
    /\ captions = {}
    /\ bPc = "idle"
    /\ matches = <<>>
    /\ mi = 1
    /\ current_pos = 1
    /\ multimodal_content = <<>>
    /\ sequences = <<>>
    \* preprocess_korean_text is not running
    /\ query_text = <<>>
    /\ ntext = <<>>
    /\ nPc = "idle"
    \* step1.py is not running
    /\ pdf_files = <<>>
    /\ kPc = "idle"
    /\ ki = 1
    /\ successful_count = 0
    /\ failed_count = 0
    /\ counts = [none |-> TRUE]
    \* llama_parse.py is not running
    /\ lpdfs = <<>>
    /\ lPc = "idle"
    /\ li = 1
    /\ saved = {}
    /\ attempts = <<>>
    /\ lrun = 1

\* step2.py:459-464: without VOYAGE_API_KEY main returns.
Step2CheckKey ==
    /\ mPc = "key"
    /\ mPc' = IF has_key THEN "load" ELSE "returned"
    /\ UNCHANGED <<has_key, processed_data, embedVars, saveVars>>
    /\ UNCHANGED <<chunkVars, qaVars, seqVars,
                    normVars, convVars, parseVars>>

\* step2.py:469-475: load_processed_data; without any entry main returns.
Step2LoadData ==
    /\ mPc = "load"
    /\ mPc' = IF processed_data = 0 THEN "returned" ELSE "sequences"
    /\ UNCHANGED <<has_key, processed_data, embedVars, saveVars>>
    /\ UNCHANGED <<chunkVars, qaVars, seqVars,
                    normVars, convVars, parseVars>>

\* step2.py:477-483: create_multimodal_sequences gives one sequence per
\* entry; without any sequence main returns.
Step2Sequences ==
    /\ mPc = "sequences"
    /\ nchunks' = [s \in 1..processed_data |-> 1]
    /\ mPc' = IF nchunks' = <<>> THEN "returned" ELSE "embed"
    /\ UNCHANGED <<has_key, processed_data, saveVars>>
    /\ UNCHANGED <<dim, ePc, si, cj, mk, chunk_embeddings, embeddings, calls>>
    /\ UNCHANGED <<chunkVars, qaVars, seqVars,
                    normVars, convVars, parseVars>>

\* step2.py:485-496: create_voyage_multimodal_embeddings returns its
\* batch; with an empty one main returns, otherwise it calls
\* save_to_qdrant.
Step2Embed ==
    /\ mPc = "embed"
    /\ embeddings' \in EmbeddedBatches(Len(nchunks))
    /\ IF HasEmbeddings(embeddings')
         THEN mPc' = "save" /\ vPc' = "delete"
         ELSE mPc' = "returned" /\ vPc' = vPc
    /\ UNCHANGED <<has_key, processed_data>>
    /\ UNCHANGED <<dim, nchunks, ePc, si, cj, mk, chunk_embeddings, calls>>
    /\ UNCHANGED <<qdrant, prior, points, query, hits>>
    /\ UNCHANGED <<chunkVars, qaVars, seqVars,
                    normVars, convVars, parseVars>>

\* step2.py:498-506: save_to_qdrant has returned and the test searches are
\* over; main prints its closing lines.
Step2Finish ==
    /\ mPc = "save"
    /\ vPc \in {"returned", "searched"}
    /\ mPc' = "done"
    /\ vPc' = "closed"
    /\ UNCHANGED <<has_key, processed_data, embedVars>>
    /\ UNCHANGED <<qdrant, prior, points, query, hits>>
    /\ UNCHANGED <<chunkVars, qaVars, seqVars,
                    normVars, convVars, parseVars>>

NextMain ==
    \/ Step2CheckKey
    \/ Step2LoadData
    \/ Step2Sequences
    \/ Step2Embed
    \/ SaveDeleteCollection
    \/ SaveCreateCollection
    \/ SaveBuildPoints
    \/ SaveUpsert
    \/ SaveUpsertRejected
    \/ SearchSimilarDocuments
    \/ Step2Finish

----------------------------------------------------------------------------
(* The specifications: each runs one part and leaves the others idle.      *)

SpecEmbed == InitEmbed /\ [][NextEmbed]_vars

SpecChunk == InitChunk /\ [][NextChunk]_vars

SpecQA == InitQA /\ [][NextQA]_vars

\* The steps main and interactive_qa take by themselves: the process is
\* never suspended for good, so a step that stays possible is taken. The
\* interrupt and the concurrent ingestion are left to their own timing.
LoopStep ==
    \/ MainCheckCollections
    \/ MainLoadData
    \/ ReadLine
    \/ ReadEOF
    \/ Retrieve
    \/ Generate
    \/ PrintAnswer

SpecQALive == InitQA /\ [][NextQA]_vars /\ WF_vars(LoopStep)

SpecSeq == InitSeq /\ [][NextSeq]_vars

SpecSave == InitSave /\ [][NextSave]_vars

SpecNormalize == InitNormalize /\ [][NextNormalize]_vars

SpecConvert == InitConvert /\ [][NextConvert]_vars

SpecParse == InitParse /\ [][NextParse]_vars

SpecMain == InitMain /\ [][NextMain]_vars

----------------------------------------------------------------------------
(* Claims about create_voyage_multimodal_embeddings.                       *)

ClaimedOrder == <<"voyage-large-2", "voyage-02", "voyage-01">>

ClaimedRank(m) == CHOOSE i \in 1..Len(ClaimedOrder) : ClaimedOrder[i] = m

SameChunk(c, d) == c.seq = d.seq /\ c.chunk = d.chunk

\* The successful embed calls made for sequence s, in call order.
SuccessfulCalls(s) == SelectSeq(calls, LAMBDA c : c.seq = s /\ c.ok)

\* The sequence whose chunk_embeddings list is the current one.
CurrentSeq == IF ePc \in {"embed", "aggregate"} THEN si ELSE si - 1

\* Chunk j of sequence s has left the model loop.
ChunkFinished(s, j) ==
    \/ s < si
    \/ s = si /\ ePc = "embed" /\ j < cj
    \/ s = si /\ ePc = "aggregate"

\* C1: for every chunk the candidates are called strictly in the order
\* voyage-large-2, voyage-02, voyage-01: a candidate is called only after
\* every earlier candidate failed for that chunk, nothing is called for a
\* chunk after a success, the first success supplies the chunk's vector and
\* model_used, a chunk whose every candidate failed contributes no vector,
\* and every chunk before the current one has been attempted.
C1_FallbackInOrder ==
    /\ \A p \in 1..Len(calls) :
         LET c == calls[p]
             r == ClaimedRank(c.model)
         IN  /\ c.model \in {ClaimedOrder[i] : i \in 1..Len(ClaimedOrder)}
             /\ r = 1 => \A q \in 1..(p - 1) : ~SameChunk(calls[q], c)
             /\ r > 1 => /\ p > 1
                         /\ SameChunk(calls[p - 1], c)
                         /\ calls[p - 1].model = ClaimedOrder[r - 1]
                         /\ ~calls[p - 1].ok
             /\ c.ok => \A q \in (p + 1)..Len(calls) : ~SameChunk(calls[q], c)
    /\ LET sc == SuccessfulCalls(CurrentSeq)
       IN  chunk_embeddings =
             [a \in 1..Len(sc) |->
                [chunk_index |-> sc[a].chunk - 1,
                 embedding |-> EmbedResult(sc[a].seq, sc[a].chunk, sc[a].model),
                 model_used |-> sc[a].model]]
    /\ \A s \in 1..Len(nchunks) : \A j \in 1..nchunks[s] :
         ChunkFinished(s, j) =>
           \/ \E p \in 1..Len(calls) :
                calls[p].seq = s /\ calls[p].chunk = j /\ calls[p].ok
           \/ \A i \in 1..Len(ClaimedOrder) : \E p \in 1..Len(calls) :
                /\ calls[p].seq = s /\ calls[p].chunk = j
                /\ calls[p].model = ClaimedOrder[i] /\ ~calls[p].ok

\* A chunk failed on every candidate, and a later chunk of the same
\* sequence was then served by the last candidate after two failures.
C1_Witness ==
    /\ ePc = "done"
    /\ \E p \in 1..Len(calls) : \E q \in (p + 1)..Len(calls) :
         /\ calls[p].model = "voyage-01" /\ ~calls[p].ok
         /\ calls[q].seq = calls[p].seq /\ calls[q].chunk = calls[p].chunk + 1
         /\ calls[q].model = "voyage-01" /\ calls[q].ok

\* The input sequences with at least one successfully embedded chunk, in
\* input order.
EmbeddedSequences ==
    SelectSeq([s \in 1..Len(nchunks) |-> s],
              LAMBDA s : SuccessfulCalls(s) # <<>>)

RECURSIVE SumOfCalls(_, _)
SumOfCalls(sc, k) ==
    IF sc = <<>> THEN 0
    ELSE EmbedResult(Head(sc).seq, Head(sc).chunk, Head(sc).model)[k]
           + SumOfCalls(Tail(sc), k)

\* C3: the aggregated vector of every DocumentEmbedding is the
\* element-wise mean of exactly the vectors of the successful embed calls of
\* its document; with one success among three chunks it is that chunk's
\* vector.
C3_AggregateIsMeanOfSuccesses ==
    \A a \in 1..Len(embeddings) :
      LET e == embeddings[a]
          sc == SuccessfulCalls(e.pdf_name)
      IN  /\ sc # <<>>
          /\ Len(e.embedding) = dim[sc[1].model]
          /\ \A k \in 1..Len(e.embedding) :
               /\ e.embedding[k].den = Len(sc)
               /\ e.embedding[k].num = SumOfCalls(sc, k)
          /\ (nchunks[e.pdf_name] = 3 /\ Len(sc) = 1) =>
               \A k \in 1..Len(e.embedding) :
                 e.embedding[k] =
                   [num |-> EmbedResult(sc[1].seq, sc[1].chunk, sc[1].model)[k],
                    den |-> 1]

\* A document of three chunks of which exactly one was embedded is in the
\* batch, next to a document averaged over two chunks.
C3_Witness ==
    /\ ePc = "done"
    /\ \E a \in 1..Len(embeddings) :
         /\ nchunks[embeddings[a].pdf_name] = 3
         /\ Len(SuccessfulCalls(embeddings[a].pdf_name)) = 1
         /\ SuccessfulCalls(embeddings[a].pdf_name)[1].chunk = 2

----------------------------------------------------------------------------
(* Claims about chunk_text.                                                *)

RECURSIVE Flatten(_)
Flatten(ss) == IF ss = <<>> THEN <<>> ELSE Head(ss) \o Flatten(Tail(ss))

NonWhitespace(t) == SelectSeq(t, LAMBDA ch : ch \notin Whitespace)

\* a occurs in b as a subsequence: in order, other characters in between.
RECURSIVE IsSubsequence(_, _)
IsSubsequence(a, b) ==
    IF a = <<>> THEN TRUE
    ELSE IF b = <<>> THEN FALSE
    ELSE IF Head(a) = Head(b) THEN IsSubsequence(Tail(a), Tail(b))
    ELSE IsSubsequence(a, Tail(b))

\* C10: the chunks chunk_text returns, concatenated in order, contain every
\* non-whitespace character of the text in its original order, whatever
\* separators and whitespace were inserted between them.
C10_NoCharacterDropped ==
    cPc = "done" =>
      IsSubsequence(NonWhitespace(text), NonWhitespace(Flatten(result)))

\* The sentence-terminal punctuation of the modelled texts.
ClaimedTerminators == {".", "!", "?"}

HasSentenceBoundary(t) == \E p \in 1..Len(t) : t[p] \in ClaimedTerminators

\* C11: every chunk chunk_text returns is at most max_length long, unless
\* the text contains no sentence boundary at all.
C11_ChunksWithinMaxLength ==
    (cPc = "done" /\ HasSentenceBoundary(text)) =>
      \A i \in 1..Len(result) : Len(result[i]) <= max_length

\* C12: a text longer than max_length without sentence-terminal
\* punctuation is returned as the one chunk that is the text itself.
C12_DegenerateTextReturnedWhole ==
    (cPc = "done" /\ Len(text) > max_length /\ ~HasSentenceBoundary(text)) =>
      result = <<text>>

\* C13: a text of at most max_length characters, the empty text and texts
\* with leading or trailing whitespace included, is returned as the
\* one-element list holding the text unmodified.
C13_ShortTextReturnedUnmodified ==
    (cPc = "done" /\ Len(text) <= max_length) => result = <<text>>

\* A text with a leading and a trailing blank that just fits was returned.
C13_Witness ==
    /\ cPc = "done"
    /\ text = <<" ", "a", " ">>
    /\ max_length = 3
    /\ result = <<<<" ", "a", " ">>>>

----------------------------------------------------------------------------
(* Claims about create_multimodal_sequences.                               *)

\* The pieces of the text between its image markers: N markers give N + 1
\* pieces, empty ones included.
RECURSIVE PiecesBetweenMarkers(_)
PiecesBetweenMarkers(t) ==
    IF \A p \in 1..Len(t) : t[p] # "![](img)" THEN <<t>>
    ELSE LET p == CHOOSE q \in 1..Len(t) :
                    /\ t[q] = "![](img)"
                    /\ \A u \in 1..(q - 1) : t[u] # "![](img)"
         IN  <<SubSeq(t, 1, p - 1)>> \o PiecesBetweenMarkers(SubSeq(t, p + 1, Len(t)))

MarkerCount == Len(PiecesBetweenMarkers(md_content)) - 1

\* The sequence built for the document, once the builder is done.
BuiltContent == sequences[1].multimodal_content

\* What a segment is: a text with its content or an image with its name.
Shape(mc) ==
    [a \in 1..Len(mc) |->
       IF mc[a].type = "text"
         THEN [type |-> "text", content |-> mc[a].content]
         ELSE [type |-> "image", image_name |-> mc[a].image_name]]

ImageSegments(mc) == SelectSeq(mc, LAMBDA g : g.type = "image")

TextSegments(mc) == SelectSeq(mc, LAMBDA g : g.type = "text")

\* The trimmed piece as a text segment, nothing when it is empty.
TextPart(piece) ==
    IF Strip(piece) = <<>> THEN <<>>
    ELSE <<[type |-> "text", content |-> Strip(piece)]>>

\* The image of the k-th marker: the k-th file of the list, when there is
\* one that can be read.
ImagePart(k) ==
    IF k <= Len(image_files) /\ image_files[k].readable
      THEN <<[type |-> "image", image_name |-> image_files[k].name]>>
      ELSE <<>>

\* The reading order of the text: piece, image, piece, ..., last piece.
RECURSIVE ReadingOrder(_, _)
ReadingOrder(pieces, k) ==
    IF k = Len(pieces) THEN TextPart(pieces[k])
    ELSE TextPart(pieces[k]) \o ImagePart(k) \o ReadingOrder(pieces, k + 1)

AllReadable == \A k \in 1..Len(image_files) : image_files[k].readable

\* C14: with N markers and M >= N image files the sequence has exactly N
\* image segments, the k-th carrying the k-th file of the image list,
\* interleaved with the non-empty (trimmed) text between the markers in the
\* reading order of the text.
C14_MarkersMapToImagesInOrder ==
    (bPc = "done" /\ MarkerCount >= 1 /\ Len(image_files) >= MarkerCount
       /\ AllReadable) =>
      /\ Len(sequences) = 1
      /\ Len(ImageSegments(BuiltContent)) = MarkerCount
      /\ \A k \in 1..MarkerCount :
           ImageSegments(BuiltContent)[k].image_name = image_files[k].name
      /\ Shape(BuiltContent) = ReadingOrder(PiecesBetweenMarkers(md_content), 1)

\* Text, image 1, text, image 2: two markers and two files.
C14_Witness ==
    /\ bPc = "done"
    /\ md_content = <<"a", "![](img)", "b", "![](img)">>
    /\ Len(image_files) = 2
    /\ AllReadable
    /\ Len(BuiltContent) = 4

\* C15: with more markers than image files, image segments are emitted for
\* the first M markers only, none for the excess markers, the text around
\* the skipped markers is still emitted, and the builder ends without error.
C15_ExcessMarkersSkipped ==
    (bPc = "done" /\ MarkerCount > Len(image_files)) =>
      /\ Len(sequences) = 1
      /\ AllReadable =>
           /\ Len(ImageSegments(BuiltContent)) = Len(image_files)
           /\ \A k \in 1..Len(image_files) :
                ImageSegments(BuiltContent)[k].image_name = image_files[k].name
      /\ Len(ImageSegments(BuiltContent)) <= Len(image_files)
      /\ Shape(TextSegments(BuiltContent)) =
           Flatten([k \in 1..(MarkerCount + 1) |->
                      TextPart(PiecesBetweenMarkers(md_content)[k])])
      /\ Shape(BuiltContent) = ReadingOrder(PiecesBetweenMarkers(md_content), 1)

\* Two markers, one file: the image of the first marker, then the text
\* before and after the skipped second marker.
C15_Witness ==
    /\ bPc = "done"
    /\ md_content = <<"![](img)", "a", "![](img)", "b">>
    /\ Len(image_files) = 1
    /\ AllReadable
    /\ Shape(BuiltContent) = << [type |-> "image", image_name |-> 1],
                                [type |-> "text", content |-> <<"a">>],
                                [type |-> "text", content |-> <<"b">>] >>

LastPiece == PiecesBetweenMarkers(md_content)[MarkerCount + 1]

\* C16: text after the last marker that is not empty (once trimmed) is the
\* final text segment of the sequence; a text without markers gives the
\* sequence of the one text segment that holds the entire text.
C16_TrailingTextAndNoMarkers ==
    bPc = "done" =>
      /\ MarkerCount = 0 =>
           sequences = <<[pdf_name |-> 1,
                          multimodal_content |->
                            <<[type |-> "text", content |-> md_content]>>]>>
      /\ (MarkerCount >= 1 /\ Strip(LastPiece) # <<>>) =>
           /\ BuiltContent # <<>>
           /\ BuiltContent[Len(BuiltContent)] =
                [type |-> "text", content |-> Strip(LastPiece)]

\* The text after the only marker became the final text segment.
C16_Witness ==
    /\ bPc = "done"
    /\ md_content = <<"a", "![](img)", " ", "b">>
    /\ Len(image_files) = 1
    /\ AllReadable
    /\ Len(BuiltContent) = 3
    /\ BuiltContent[3] = [type |-> "text", content |-> <<"b">>]

\* C17: the caption of every image segment is the caption registered for
\* the segment's own image name, and the empty string when none is
\* registered for it, whatever the captions of the other images are.
C17_CaptionIsThatOfOwnImage ==
    bPc = "done" =>
      \A a \in 1..Len(BuiltContent) :
        BuiltContent[a].type = "image" =>
          BuiltContent[a].caption =
            IF BuiltContent[a].image_name \in captions
              THEN <<BuiltContent[a].image_name>>
              ELSE <<>>

----------------------------------------------------------------------------
(* Claims about save_to_qdrant.                                            *)

\* The batch holds an embedding whose width is not that of the first one.
BatchHasMismatch ==
    \E a \in 1..Len(embeddings) :
      Len(embeddings[a].embedding) # Len(embeddings[1].embedding)

C19_MismatchFailsClosed ==
    BatchHasMismatch =>
      /\ vPc # "returned"
      /\ vPc = "raised" => qdrant.points = <<>>

\* C20: the reset succeeds with and without a collection of that name;
\* after it the collection exists, is configured for cosine similarity and
\* the given width, and holds no point stored before the reset.
C20_ResetGivesEmptyCosineCollection ==
    /\ vPc = "create" => ~qdrant.exists
    /\ vPc \in {"points", "upsert"} =>
         qdrant = [exists |-> TRUE, size |-> Len(embeddings[1].embedding),
                   distance |-> "Cosine", points |-> <<>>]
    /\ vPc \in {"returned", "raised"} =>
         /\ qdrant.exists
         /\ qdrant.distance = "Cosine"
         /\ qdrant.size = Len(embeddings[1].embedding)
         /\ \A a \in 1..Len(qdrant.points) : qdrant.points[a].id.run # 0

\* The reset has replaced a populated collection of another width and
\* another distance.
C20_Witness ==
    /\ vPc = "points"
    /\ prior.exists
    /\ prior.points # <<>>
    /\ prior.distance = "Euclid"
    /\ prior.size # qdrant.size
    /\ qdrant.points = <<>>

----------------------------------------------------------------------------
(* Claims about the RAG workflow and interactive_qa.                       *)

NoState == [question |-> <<>>, documents |-> <<>>, answer |-> <<>>]

\* The workflow run of the current question is over: it reached END or a
\* node raised.
RunOver == lastEvent \in {"retrieve_failed", "generate_failed", "generated", "printed"}

\* C4 as stated: every run executes Retrieve once, then Generate once, and
\* ends in the terminal state with the answer Generate set.
C4_EveryRunRetrievesThenGenerates ==
    RunOver =>
      /\ nodes = <<"retrieve", "generate">>
      /\ state.answer = LLMAnswer(state.documents, state.question)

\* C4 as amended: the nodes of a run are a prefix of Retrieve, Generate,
\* each executed at most once and Generate never before Retrieve; a
\* Retrieve that returns is followed by Generate whatever it retrieved,
\* also nothing; a run that reaches the terminal state has executed both
\* and carries the answer Generate set; a run in which a node raises ends
\* at that node without an answer.
C4_RunRetrievesThenGeneratesUnlessNodeRaises ==
    /\ nodes \in {<<>>, <<"retrieve">>, <<"retrieve", "generate">>}
    /\ qPc = "retrieve" => nodes = <<>>
    /\ qPc = "generate" => nodes = <<"retrieve">>
    /\ lastEvent = "retrieved" => qPc = "generate"
    /\ qPc = "finished" => lastEvent = "generated"
    /\ lastEvent \in {"generated", "printed"} =>
         /\ nodes = <<"retrieve", "generate">>
         /\ state.answer = LLMAnswer(state.documents, state.question)
         /\ state.answer # <<>>
    /\ lastEvent = "retrieve_failed" =>
         nodes = <<"retrieve">> /\ state.answer = <<>>
    /\ lastEvent = "generate_failed" =>
         nodes = <<"retrieve", "generate">> /\ state.answer = <<>>

\* Generate has answered a question for which nothing was retrieved.
C4_Witness ==
    /\ lastEvent = "generated"
    /\ state.documents = <<>>
    /\ nodes = <<"retrieve", "generate">>

ClaimedTokens == {<<"q", "u", "i", "t">>, <<"e", "x", "i", "t">>, <<"종", "료">>}

\* The line read last is, stripped and lower-cased, a termination token.
LineIsToken == Lower(Strip(line)) \in ClaimedTokens

\* C5: the loop ends only on a termination token (stripped, whatever its
\* case) or on KeyboardInterrupt; every such line ends it, without the
\* workflow being run for it; any other non-empty line starts the workflow
\* on the stripped line, and after an answer, an empty line or an error the
\* loop is back at its prompt.
C5_LoopEndsOnlyOnTokenOrInterrupt ==
    /\ qPc = "exited" => lastEvent \in {"token", "interrupt"}
    /\ lastEvent = "token" => qPc = "exited" /\ LineIsToken
    /\ lastEvent = "interrupt" => qPc = "exited"
    /\ lastEvent \in {"question", "empty"} => ~LineIsToken
    /\ lastEvent = "question" =>
         qPc = "retrieve" /\ nodes = <<>> /\ state.question = Strip(line)
    /\ qPc \in {"retrieve", "generate", "finished"} =>
         /\ Lower(state.question) \notin ClaimedTokens
         /\ state.question # <<>>
    /\ lastEvent \in {"empty", "printed", "eof", "retrieve_failed", "generate_failed"} =>
         qPc = "input"

\* After an answered question the line " QuIT " has ended the loop.
C5_Witness ==
    /\ qPc = "exited"
    /\ lastEvent = "token"
    /\ line = <<" ", "Q", "u", "I", "T", " ">>
    /\ rresult.answer # <<>>

\* C6: a failure raised by Retrieve or Generate is caught and reported,
\* the loop is then at its prompt, where the next line can be read, and the
\* session never ends or dies because of the failure.
C6_FailureIsCaughtAndLoopContinues ==
    /\ lastEvent \in {"retrieve_failed", "generate_failed"} =>
         /\ qPc = "input"
         /\ reported
         /\ hadFailure
         /\ ENABLED ReadLine
    /\ qPc \in {"check", "load", "stopped", "input", "retrieve", "generate",
                "finished", "exited"}
    /\ hadFailure /\ qPc = "exited" => lastEvent \in {"token", "interrupt"}

\* After a failed question a later one has been answered.
C6_Witness ==
    /\ hadFailure
    /\ lastEvent = "printed"
    /\ rresult.answer # <<>>

\* The last Retrieve found the collection present and empty.
SawEmptyCollection == seen.exists /\ seen.points = <<>>

C8_EveryQuestionStartsFresh ==
    /\ qPc = "retrieve" =>
         state = [question |-> question, documents |-> <<>>, answer |-> <<>>]
    /\ qPc \in {"generate", "finished"} =>
         /\ state.question = question
         /\ state.documents = Search(question, seen, TopK)
    /\ qPc = "generate" => state.answer = <<>>
    /\ qPc = "finished" => state.answer = LLMAnswer(Search(question, seen, TopK), question)
    /\ lastEvent = "printed" => rresult = state

\* A question starts while an earlier one was answered from documents and
\* another one failed.
C8_Witness ==
    /\ qPc = "retrieve"
    /\ rresult.documents # <<>>
    /\ rresult.answer # <<>>
    /\ rresult.question # question
    /\ hadFailure

\* C9: Retrieve embeds the normalized question, trying the candidate
\* models of the ingestion in their order, the first success giving the
\* query vector; the search is issued only after a success, with the fixed
\* top-K; if every candidate fails no search is issued and the empty result
\* is returned.
C9_RetrieveNormalizesAndFallsBack ==
    /\ \A a \in 1..Len(qcalls) :
         /\ qcalls[a].text = PreprocessKoreanText(question)
         /\ a <= Len(ClaimedOrder)
         /\ qcalls[a].model = ClaimedOrder[a]
         /\ a > 1 => ~qcalls[a - 1].ok
    /\ searched # <<>> =>
         /\ qcalls # <<>>
         /\ qcalls[Len(qcalls)].ok
         /\ searched = <<[limit |-> TopK]>>
    /\ (lastEvent \in {"retrieved", "retrieve_failed"}
          /\ \A a \in 1..Len(qcalls) : ~qcalls[a].ok) =>
         /\ lastEvent = "retrieved"
         /\ searched = <<>>
         /\ state.documents = <<>>

----------------------------------------------------------------------------
(* Claims about the points save_to_qdrant writes and the search over them.  *)

\* The ids of the points of the sequence ps are pairwise different.
DistinctIds(ps) ==
    \A a, b \in 1..Len(ps) : ps[a].id = ps[b].id => a = b

\* The earlier collection holds a point of a document of the batch.
AlreadyRepresented ==
    /\ prior.exists
    /\ \E j \in 1..Len(prior.points) : \E i \in 1..Len(embeddings) :
         embeddings[i].pdf_name = prior.points[j].payload.pdf_name

\* C21 as stated: upsert writes one point per DocumentEmbedding of the
\* batch, each with a fresh id that differs from the id of every other
\* stored point, and a document that is already represented in the
\* collection gets a new point next to its earlier one, which stays.
C21_ReingestionKeepsEarlierPoint ==
    vPc = "returned" =>
      /\ DistinctIds(qdrant.points)
      /\ \A i \in 1..Len(embeddings) : \E k \in 1..Len(qdrant.points) :
           /\ qdrant.points[k].payload.pdf_name = embeddings[i].pdf_name
           /\ qdrant.points[k].vector = embeddings[i].embedding
      /\ prior.exists =>
           \A j \in 1..Len(prior.points) :
             (\E i \in 1..Len(embeddings) :
                embeddings[i].pdf_name = prior.points[j].payload.pdf_name) =>
               \E k \in 1..Len(qdrant.points) : qdrant.points[k] = prior.points[j]

\* C21 as amended: upsert writes one point per DocumentEmbedding of the
\* batch, in the batch's order, each with a fresh id that differs from the
\* id of every other stored point and of every point of the earlier
\* collection; no point is updated by document id. The collection upsert
\* writes to is the one save_to_qdrant has just reset, so the earlier point
\* of a document is gone and the collection holds the batch's points only.
C21_UpsertAddsFreshPointsAfterReset ==
    /\ qdrant.exists => DistinctIds(qdrant.points)
    /\ (qdrant.exists /\ prior.exists /\ vPc # "delete") =>
         \A k \in 1..Len(qdrant.points) : \A j \in 1..Len(prior.points) :
           qdrant.points[k].id # prior.points[j].id
    /\ vPc = "upsert" => qdrant.points = <<>>
    /\ vPc = "returned" =>
         /\ Len(qdrant.points) = Len(embeddings)
         /\ \A i \in 1..Len(embeddings) :
              /\ qdrant.points[i].payload.pdf_name = embeddings[i].pdf_name
              /\ qdrant.points[i].vector = embeddings[i].embedding

\* A document of the earlier collection has been ingested again, next to
\* another document.
C21_Witness ==
    /\ vPc = "returned"
    /\ AlreadyRepresented
    /\ prior.points # <<>>
    /\ Len(qdrant.points) = 2
    /\ qdrant.points[1].payload.pdf_name = prior.points[1].payload.pdf_name
    /\ qdrant.points[1].id # prior.points[1].id

\* The vectors u and v have one direction: their cosine is 1.
SameDirection(u, v) ==
    /\ Len(u) = Len(v)
    /\ \A a, b \in 1..Len(u) : u[a].num * v[b].num = u[b].num * v[a].num
    /\ \E a \in 1..Len(u) : u[a].num * v[a].num > 0
    /\ \A a \in 1..Len(u) : u[a].num * v[a].num >= 0

\* The score is 1.0.
IsOne(score) == score.dot > 0 /\ score.dot * score.dot = score.qq * score.vv

\* The stored point with the id of hit h.
PointOf(h) == CHOOSE i \in 1..Len(qdrant.points) : qdrant.points[i].id = h.id

\* A search with the vector of the first stored point and limit 1.
SelfQuery ==
    /\ query.outcome = "hits"
    /\ query.limit = 1
    /\ qdrant.points # <<>>
    /\ query.vector = qdrant.points[1].vector

\* The hits are at most limit stored points, none twice, in non-increasing
\* order of their cosine similarity to the query.
TopHitsInOrder ==
    query.outcome = "hits" =>
      /\ Len(hits) <= query.limit
      /\ Len(hits) <= Len(qdrant.points)
      /\ Len(hits) = query.limit \/ Len(hits) = Len(qdrant.points)
      /\ \A a \in 1..Len(hits) :
           /\ \E i \in 1..Len(qdrant.points) : qdrant.points[i].id = hits[a].id
           /\ \A b \in 1..Len(hits) : hits[a].id = hits[b].id => a = b
           /\ IsOne(hits[a].score)
                <=> SameDirection(query.vector, qdrant.points[PointOf(hits[a])].vector)
      /\ \A a \in 1..(Len(hits) - 1) :
           LET lo == hits[a + 1].score
               hi == hits[a].score
           IN  \/ lo.dot <= 0 /\ hi.dot >= 0
               \/ /\ lo.dot >= 0 /\ hi.dot >= 0
                  /\ lo.dot * lo.dot * hi.vv <= hi.dot * hi.dot * lo.vv
               \/ /\ lo.dot <= 0 /\ hi.dot <= 0
                  /\ lo.dot * lo.dot * hi.vv >= hi.dot * hi.dot * lo.vv

\* C22 as stated: after the reset and the upsert of p1..pn, a search with
\* p1's vector and limit 1 returns exactly p1, with score 1.0; any search
\* returns at most limit points in non-increasing order of similarity.
C22_SelfQueryReturnsP1 ==
    /\ TopHitsInOrder
    /\ SelfQuery =>
         /\ Len(hits) = 1
         /\ hits[1].id = qdrant.points[1].id
         /\ IsOne(hits[1].score)

\* C22 as amended: after the reset and the upsert of p1..pn, a search with
\* p1's vector and limit 1 returns one point with score 1.0 whose vector has
\* the direction of p1's: p1 itself whenever no other stored vector has
\* that direction; any search returns at most limit points in
\* non-increasing order of similarity.
C22_SelfQueryReturnsPointOfSameDirection ==
    /\ TopHitsInOrder
    /\ SelfQuery =>
         /\ Len(hits) = 1
         /\ IsOne(hits[1].score)
         /\ SameDirection(qdrant.points[1].vector,
                          qdrant.points[PointOf(hits[1])].vector)
         /\ (\A i \in 2..Len(qdrant.points) :
               ~SameDirection(qdrant.points[1].vector, qdrant.points[i].vector))
              => hits[1].id = qdrant.points[1].id

\* The self query has found p1 among two points of different directions.
C22_Witness ==
    /\ SelfQuery
    /\ Len(qdrant.points) = 2
    /\ ~SameDirection(qdrant.points[1].vector, qdrant.points[2].vector)
    /\ hits # <<>>
    /\ hits[1].id = qdrant.points[1].id
    /\ IsOne(hits[1].score)

----------------------------------------------------------------------------
(* Claims about the handling of failed service calls.                      *)

\* C23: a failed call to the embedding service is retried at most once,
\* and only after a rate-limit failure: no chunk (the unit of the embedding
\* loop) is attempted more than twice, and a second attempt repeats the
\* call that failed, that is, it asks the same model again.
C23_RateLimitRetriedOnce ==
    \A p \in 1..Len(calls) :
      LET unit == {q \in 1..Len(calls) : SameChunk(calls[q], calls[p])}
      IN  /\ Cardinality(unit) <= 2
          /\ \A q \in unit : calls[q].model = calls[p].model

----------------------------------------------------------------------------
(* Claims about the conversion batch of step1.py.                          *)

\* The documents of the directory whose conversion goes through.
Converting == {i \in 1..Len(pdf_files) : pdf_files[i]}

\* C24: at the end of a conversion batch the success count plus the failure
\* count is the number of input documents, every document counted once and
\* as what it was, a failing document never ends the loop, and main
\* receives the two counts for every input, an empty directory included.
C24_CountsCoverEveryInput ==
    /\ kPc = "loop" =>
         /\ successful_count + failed_count = ki - 1
         /\ successful_count = Cardinality(Converting \cap 1..(ki - 1))
    /\ kPc \in {"returned", "analyze", "captions", "done", "raised"} =>
         /\ ~counts.none
         /\ counts.successful + counts.failed = Len(pdf_files)
         /\ counts.successful = Cardinality(Converting)
    /\ kPc # "raised"

----------------------------------------------------------------------------
(* Claims about preprocess_korean_text.                                    *)

\* What the claim allows in the output: word characters, Hangul syllables
\* and whitespace.
ClaimedWordChars == {"a", "b", "_", "0"}

ClaimedHangul == {"종", "료"}

ClaimedWhitespace == {" ", "\n", "\t"}

\* C25: for every input string preprocess_korean_text returns a string of
\* word characters, Hangul syllables and whitespace only, without two
\* adjacent whitespace characters; the empty string gives the empty string;
\* and the function never fails: it goes on until it has returned.
C25_OutputIsCleanAndCollapsed ==
    /\ nPc \in {"strip", "blank", "collapse", "return", "returned"}
    /\ nPc # "returned" => ENABLED NextNormalize
    /\ nPc = "returned" =>
         /\ \A p \in 1..Len(ntext) :
              ntext[p] \in ClaimedWordChars \cup ClaimedHangul \cup ClaimedWhitespace
         /\ \A p \in 1..(Len(ntext) - 1) :
              ~(ntext[p] \in ClaimedWhitespace /\ ntext[p + 1] \in ClaimedWhitespace)
         /\ query_text = <<>> => ntext = <<>>

\* A query with a special character between two whitespace characters has
\* been normalized.
C25_Witness ==
    /\ nPc = "returned"
    /\ \E p \in 2..(Len(query_text) - 1) :
         /\ query_text[p] = "?"
         /\ query_text[p - 1] \in ClaimedWhitespace
         /\ query_text[p + 1] \in ClaimedWhitespace
    /\ \E p \in 1..Len(ntext) : ntext[p] = "종"

----------------------------------------------------------------------------
(* Claims about the packing of sentences into chunks by chunk_text.        *)

\* The pieces of t between sentence terminators, cur being the piece read
\* so far.
RECURSIVE PiecesOf(_, _)
PiecesOf(t, cur) ==
    IF t = <<>> THEN <<cur>>
    ELSE IF Head(t) \in ClaimedTerminators
      THEN <<cur>> \o PiecesOf(Tail(t), <<>>)
      ELSE PiecesOf(Tail(t), Append(cur, Head(t)))

\* A piece without the whitespace at its two ends.
RECURSIVE Trimmed(_)
Trimmed(t) ==
    IF t = <<>> THEN <<>>
    ELSE IF t[1] \in Whitespace THEN Trimmed(Tail(t))
    ELSE IF t[Len(t)] \in Whitespace THEN Trimmed(SubSeq(t, 1, Len(t) - 1))
    ELSE t

\* The sentences of t: its trimmed pieces, the empty ones left out.
ClaimedSentences(t) ==
    LET ps == PiecesOf(t, <<>>)
        tr == [i \in 1..Len(ps) |-> Trimmed(ps[i])]
    IN  SelectSeq(tr, LAMBDA x : x # <<>>)

\* The chunks the packing rule of the claim makes of the sentences ss, the
\* buffer holding buf.
RECURSIVE ClaimedPacking(_, _, _)
ClaimedPacking(ss, buf, max) ==
    LET flushed == IF buf # <<>> THEN <<Trimmed(buf)>> ELSE <<>>
    IN  IF ss = <<>> THEN flushed
        ELSE IF Len(buf) + Len(Head(ss)) < max
          THEN ClaimedPacking(Tail(ss), buf \o Head(ss) \o <<".", " ">>, max)
          ELSE flushed \o ClaimedPacking(Tail(ss), Head(ss) \o <<".", " ">>, max)

\* The sentences found in the chunks cs, chunk after chunk.
RECURSIVE SentencesIn(_)
SentencesIn(cs) ==
    IF cs = <<>> THEN <<>>
    ELSE ClaimedSentences(Head(cs)) \o SentencesIn(Tail(cs))

\* C26: for a text longer than max_length the sentences are taken in their
\* order; a sentence joins the buffer when len(buffer) + len(sentence) <
\* max_length, otherwise the non-empty buffer is flushed as a chunk and the
\* sentence starts a new buffer; flushed chunks are trimmed, the last
\* non-empty buffer is the last chunk, and every sentence is in exactly one
\* chunk, the chunks keeping the order of the sentences.
C26_SentencesPackedGreedilyInOrder ==
    (cPc = "done" /\ Len(text) > max_length
       /\ ClaimedSentences(text) # <<>>) =>
      /\ result = ClaimedPacking(ClaimedSentences(text), <<>>, max_length)
      /\ SentencesIn(result) = ClaimedSentences(text)
      /\ \A i \in 1..Len(result) :
           /\ result[i] # <<>>
           /\ Trimmed(result[i]) = result[i]

\* A text of three sentences has given two chunks, the first one holding
\* two sentences.
C26_Witness ==
    /\ cPc = "done"
    /\ Len(text) > max_length
    /\ Len(ClaimedSentences(text)) = 3
    /\ Len(result) = 2
    /\ Len(ClaimedSentences(result[1])) = 2
    /\ Len(ClaimedSentences(result[2])) = 1

----------------------------------------------------------------------------
(* Claims about a reader of the collection during a rebuild.               *)

\* The ingestion run the point p was written by.
RunOf(p) == p.run

\* The points ps come from one ingestion run.
OneRun(ps) == \A a, b \in 1..Len(ps) : RunOf(ps[a]) = RunOf(ps[b])

\* The points ps are points of the collection as it was when the session
\* began.
PreviousRun(ps) == ps # <<>> /\ RunOf(ps[1]) = 0

\* C27: whenever a reader looks at the collection while an ingestion
\* rebuilds it (delete, create, upsert), it finds no points, or points of
\* the new run only, or the complete previous collection, which is there
\* only as long as the delete has not happened; it never finds points of
\* the previous run next to points of the new run, and neither does the
\* result of a search.
C27_ReaderNeverSeesMixedRuns ==
    /\ OneRun(collection.points)
    /\ OneRun(seen.points)
    /\ OneRun(state.documents)
    /\ OneRun(rresult.documents)
    /\ PreviousRun(collection.points) => (iPc = "idle" /\ rebuilds = 0)
    /\ (PreviousRun(collection.points) /\ PreviousRun(seen.points))
         => seen = collection
    /\ (collection.points # <<>> /\ ~PreviousRun(collection.points)) =>
         \/ iPc = "upserting" /\ RunOf(collection.points[1]) = rebuilds + 1
         \/ iPc = "idle" /\ RunOf(collection.points[1]) = rebuilds
    /\ iPc \in {"deleted", "created"} => collection.points = <<>>

\* A reader that was answered from the previous collection retrieves, while
\* the upsert of the rebuild is being served, points of the new run.
C27_Witness ==
    /\ iPc = "upserting"
    /\ qPc = "generate"
    /\ seen = collection
    /\ seen.points # <<>>
    /\ RunOf(seen.points[1]) = 1
    /\ state.documents # <<>>
    /\ PreviousRun(rresult.documents)

----------------------------------------------------------------------------
(* Claims about llama_parse.py.                                            *)

\* C28: when the one retry after a rate-limit failure succeeds, the parse
\* result of the document is saved as after a success of the first call
\* (the JSON and markdown files exist), so that a later run counts the
\* document as processed and does not parse it again.
C28_RetrySuccessIsPersisted ==
    \A a \in 1..Len(attempts) :
      (attempts[a].retry /\ attempts[a].answer = "pages") =>
        /\ attempts[a].pdf \in saved
        /\ \A b \in 1..Len(attempts) :
             attempts[b].run > attempts[a].run
               => attempts[b].pdf # attempts[a].pdf

----------------------------------------------------------------------------
(* Claims about the end of the interactive loop.                           *)

\* C29: once standard input is exhausted, so that every further read fails
\* with end-of-input, the interactive loop eventually exits.
C29_ExhaustedInputEndsLoop ==
    [](~stdinOpen => <>(qPc = "exited"))

----------------------------------------------------------------------------
(* Claims about main of step2.py.                                          *)

\* C30: main deletes and recreates the existing collection only after at
\* least one DocumentEmbedding has been produced: a run without the API
\* key, without processed data, without a sequence or with every document
\* dropped returns before save_to_qdrant and leaves the collection as it
\* was.
C30_ResetOnlyWithEmbeddings ==
    /\ (qdrant # prior \/ vPc # "idle") =>
         /\ embeddings # <<>>
         /\ has_key
         /\ processed_data > 0
         /\ nchunks # <<>>
         /\ mPc \in {"save", "done"}
    /\ mPc = "returned" =>
         /\ qdrant = prior
         /\ vPc = "idle"
         /\ \/ ~has_key
            \/ processed_data = 0
            \/ nchunks = <<>>
            \/ embeddings = <<>>

\* A run with the key and with two documents, both dropped by the
\* embedding step, has returned; the populated collection is as before.
C30_Witness ==
    /\ mPc = "returned"
    /\ has_key
    /\ Len(nchunks) = 2
    /\ embeddings = <<>>
    /\ prior.exists
    /\ prior.points # <<>>
    /\ qdrant = prior

====
